---- MODULE Spec2Model ----
(***************************************************************************)
(* A state-machine model of the tariff-map front end: the data-loading     *)
(* effects of the map components, the identity lookup of the home page,    *)
(* the color encoding and the hover / click / zoom handlers of the map     *)
(* variants.                                                               *)
(*                                                                         *)
(* Each React component is one record-valued variable holding its useState *)
(* slots; each effect body, promise continuation and event handler is one  *)
(* action.  A pending promise is an element of the component's "pending"   *)
(* set; its settlement is the action that runs the code after the await.   *)
(***************************************************************************)
EXTENDS Integers, Sequences, FiniteSets, TLC

VARIABLES
    tdm,      \* TradeDeficitMap (unnamed/part_010): state slots + pending fetches
    cts,      \* CountryTradeStats: state slots + pending fetches
    home,     \* Home (unnamed/part_015): country tables + the Promise.all of loadData
    details,  \* CountryDetails: state slots + the Promise.all of fetchData
    map,      \* the mounted map variant: data, tooltip, hover, selection, zoom
    reg       \* identity lookup: the table, the token and the last result

vars == <<tdm, cts, home, details, map, reg>>

(***************************************************************************)
(* JavaScript values                                                       *)
(***************************************************************************)
Null == "null"                \* the JS value null (state slots typed T | null)
Undefined == "undefined"      \* the JS value undefined (a missed lookup)

\* A state slot typed "object | null": null is the empty sequence, an object
\* the one-element sequence holding it.
None == <<>>

Some(x) == <<x>>

\* A JS object with string keys is a sequence of <<key, value>> entries in
\* insertion order (the order Object.entries yields for non-numeric keys).
Has(obj, k) == \E i \in 1..Len(obj) : obj[i].k = k

IndexOf(obj, k) == CHOOSE i \in 1..Len(obj) : obj[i].k = k

Get(obj, k) == obj[IndexOf(obj, k)].v

\* obj[k] = v : an existing key keeps its position, a new key is appended.
Put(obj, k, v) ==
    IF Has(obj, k)
    THEN [obj EXCEPT ![IndexOf(obj, k)] = [k |-> k, v |-> v]]
    ELSE Append(obj, [k |-> k, v |-> v])

(***************************************************************************)
(* Bounds of the model                                                     *)
(***************************************************************************)
NumYears == 2        \* distinct values of the year prop of TradeDeficitMap
MaxRequests == 3     \* fetches one component issues in a run

Years == 2021..(2020 + NumYears)

TimeRanges == {"5Y", "10Y", "ALL"}

(***************************************************************************)
(* The metrics service as seen by TradeDeficitMap and CountryTradeStats    *)
(***************************************************************************)
\* The deficits array of the response to fetchTradeDeficitMap(reporter, year).
\* Odd years report Germany and Japan, even years Germany only, so that the
\* key sets of two responses differ; the values differ with the year.
ServerDeficits(year) ==
    LET deu == [country_code |-> "DEU", country_name |-> "Germany",
                deficit_thousands |-> (0 - (year - 2000)) * 1000000]
        jpn == [country_code |-> "JPN", country_name |-> "",
                deficit_thousands |-> (year - 2000) * 1000000]
    IN  IF year % 2 = 1 THEN <<deu, jpn>> ELSE <<deu>>

\* The summary array of the response to fetchTradeSummary('USA', partner, startYear).
ServerSummary(timeRange) ==
    CASE timeRange = "5Y"  -> <<[year |-> 2024, trade_deficit |-> 5]>>
      [] timeRange = "10Y" -> <<[year |-> 2024, trade_deficit |-> 5],
                                [year |-> 2019, trade_deficit |-> 10]>>
      [] OTHER             -> <<[year |-> 2024, trade_deficit |-> 5],
                                [year |-> 2019, trade_deficit |-> 10],
                                [year |-> 2000, trade_deficit |-> 99]>>

(***************************************************************************)
(* TradeDeficitMap (unnamed/part_010): the data effect                     *)
(***************************************************************************)
RECURSIVE ReduceDeficits(_, _)
\* response.deficits.reduce(...): every entry is stored under its country
\* code and, when its name is truthy, under its country name as well.
ReduceDeficits(deficits, acc) ==
    IF deficits = <<>> THEN acc
    ELSE LET item == Head(deficits)
             byCode == Put(acc, item.country_code, item)
             byName == IF item.country_name # ""
                       THEN Put(byCode, item.country_name, item)
                       ELSE byCode
         IN  ReduceDeficits(Tail(deficits), byName)

\* useState initial values, then the mount effect has called loadData() once:
\* setLoading(true) and the first fetch is in flight.
TdmInit(year) ==
    [ year |-> year,
      deficitData |-> <<>>,
      loading |-> TRUE,
      error |-> Null,
      issued |-> 1,
      pending |-> {[seq |-> 1, year |-> year]},
      arrived |-> <<>> ]

\* The effect re-runs because the year prop changed: loadData() up to the await.
TdmLoadData(s, year) ==
    [s EXCEPT !.year = year,
              !.loading = TRUE,
              !.issued = s.issued + 1,
              !.pending = s.pending \cup {[seq |-> s.issued + 1, year |-> year]}]

\* A load that patches the response into the stored map instead of replacing it.
TdmResolved_Patching(s, r) ==
    [s EXCEPT !.deficitData = ReduceDeficits(ServerDeficits(r.year), s.deficitData),
              !.error = Null,
              !.loading = FALSE,
              !.pending = s.pending \ {r},
              !.arrived = Append(s.arrived, [seq |-> r.seq, param |-> r.year, ok |-> TRUE])]

\* The awaited fetch of request r resolved: the code after the await, then finally.
TdmResolved(s, r) ==
    [s EXCEPT !.deficitData = ReduceDeficits(ServerDeficits(r.year), <<>>),
              !.error = Null,
              !.loading = FALSE,
              !.pending = s.pending \ {r},
              !.arrived = Append(s.arrived, [seq |-> r.seq, param |-> r.year, ok |-> TRUE])]

\* The awaited fetch of request r rejected: the catch block, then finally.
TdmRejected(s, r) ==
    [s EXCEPT !.error = "Failed to load trade deficit data",
              !.loading = FALSE,
              !.pending = s.pending \ {r},
              !.arrived = Append(s.arrived, [seq |-> r.seq, param |-> r.year, ok |-> FALSE])]

(***************************************************************************)
(* CountryTradeStats: the data effect                                      *)
(***************************************************************************)
CtsInit ==
    [ timeRange |-> "10Y",
      tradeData |-> <<>>,
      loading |-> TRUE,
      error |-> Null,
      issued |-> 1,
      pending |-> {[seq |-> 1, timeRange |-> "10Y"]},
      arrived |-> <<>> ]

\* setTimeRange(range) re-runs the effect: fetchData() up to the await.
CtsFetchData(s, range) ==
    [s EXCEPT !.timeRange = range,
              !.loading = TRUE,
              !.error = Null,
              !.issued = s.issued + 1,
              !.pending = s.pending \cup {[seq |-> s.issued + 1, timeRange |-> range]}]

CtsResolved(s, r) ==
    [s EXCEPT !.tradeData = ServerSummary(r.timeRange),
              !.loading = FALSE,
              !.pending = s.pending \ {r},
              !.arrived = Append(s.arrived, [seq |-> r.seq, param |-> r.timeRange, ok |-> TRUE])]

CtsRejected(s, r) ==
    [s EXCEPT !.error = "Failed to load trade data. Please try again later.",
              !.loading = FALSE,
              !.pending = s.pending \ {r},
              !.arrived = Append(s.arrived, [seq |-> r.seq, param |-> r.timeRange, ok |-> FALSE])]

(***************************************************************************)
(* Components that take no part in a specification stay unmounted          *)
(***************************************************************************)
Unmounted == [mounted |-> FALSE]

(***************************************************************************)
(* SpecFetch: TradeDeficitMap and CountryTradeStats re-fetching on a       *)
(* parameter change, with the responses arriving in any order              *)
(***************************************************************************)
FetchInit ==
    /\ \E y \in Years : tdm = TdmInit(y)
    /\ cts = CtsInit
    /\ home = Unmounted
    /\ details = Unmounted
    /\ map = Unmounted
    /\ reg = Unmounted

TdmSetYear ==
    \E y \in Years \ {tdm.year} :
        /\ tdm.issued < MaxRequests
        /\ tdm' = TdmLoadData(tdm, y)
        /\ UNCHANGED <<cts, home, details, map, reg>>

TdmFetchResolves ==
    \E r \in tdm.pending :
        /\ tdm' = TdmResolved(tdm, r)
        /\ UNCHANGED <<cts, home, details, map, reg>>

TdmFetchRejects ==
    \E r \in tdm.pending :
        /\ tdm' = TdmRejected(tdm, r)
        /\ UNCHANGED <<cts, home, details, map, reg>>

CtsSetTimeRange ==
    \E range \in TimeRanges \ {cts.timeRange} :
        /\ cts.issued < MaxRequests
        /\ cts' = CtsFetchData(cts, range)
        /\ UNCHANGED <<tdm, home, details, map, reg>>

CtsFetchResolves ==
    \E r \in cts.pending :
        /\ cts' = CtsResolved(cts, r)
        /\ UNCHANGED <<tdm, home, details, map, reg>>

CtsFetchRejects ==
    \E r \in cts.pending :
        /\ cts' = CtsRejected(cts, r)
        /\ UNCHANGED <<tdm, home, details, map, reg>>

FetchNext ==
    \/ TdmSetYear
    \/ TdmFetchResolves
    \/ TdmFetchRejects
    \/ CtsSetTimeRange
    \/ CtsFetchResolves
    \/ CtsFetchRejects

SpecFetch == FetchInit /\ [][FetchNext]_vars

(***************************************************************************)
(* SpecDeficit: the TradeDeficitMap alone, re-fetching on a change of year *)
(***************************************************************************)
DeficitInit ==
    /\ \E y \in Years : tdm = TdmInit(y)
    /\ cts = Unmounted
    /\ home = Unmounted
    /\ details = Unmounted
    /\ map = Unmounted
    /\ reg = Unmounted

DeficitNext ==
    \/ TdmSetYear
    \/ TdmFetchResolves
    \/ TdmFetchRejects

SpecDeficit == DeficitInit /\ [][DeficitNext]_vars

\* The settled request that was issued last, among those that have settled.
NewestArrived(arrived) ==
    CHOOSE a \in {arrived[i] : i \in 1..Len(arrived)} :
        \A i \in 1..Len(arrived) : arrived[i].seq <= a.seq

\* C1 (stale-response rejection): whenever the most recently issued request
\* among the settled ones resolved, the stored data is that request's data and
\* no error is shown, however many older responses arrived after it: the late
\* arrival of an older response changes nothing.
C1_StaleResponseRejected ==
    /\ (tdm.arrived # <<>> /\ NewestArrived(tdm.arrived).ok)
          => /\ tdm.deficitData =
                   ReduceDeficits(ServerDeficits(NewestArrived(tdm.arrived).param), <<>>)
             /\ tdm.error = Null
    /\ (cts.arrived # <<>> /\ NewestArrived(cts.arrived).ok)
          => /\ cts.tradeData = ServerSummary(NewestArrived(cts.arrived).param)
             /\ cts.error = Null


(***************************************************************************)
(* Home (unnamed/part_015): loadData awaits Promise.all([fetchCountries(),  *)
(* fetchCountryMappings()])                                                *)
(***************************************************************************)
\* Responses the country-list endpoint may give.
CountryLists ==
    { <<[name |-> "Germany", iso_alpha3 |-> "DEU"],
        [name |-> "Japan", iso_alpha3 |-> "JPN"]>>,
      <<[name |-> "Germany", iso_alpha3 |-> "DEU"]>>,
      <<[name |-> "Nigeria", iso_alpha3 |-> "NGA"],
        [name |-> "Niger", iso_alpha3 |-> "NER"]>> }

\* Responses the country-mappings endpoint may give (alternate token -> ISO3).
MappingTables ==
    { <<[k |-> "GER", v |-> "DEU"], [k |-> "JAP", v |-> "JPN"]>>,
      <<[k |-> "DE", v |-> "DEU"]>> }

RECURSIVE NameToCode(_, _)
\* countries.forEach(country => nameToCode[country.name] = country.iso_alpha3)
NameToCode(countries, acc) ==
    IF countries = <<>> THEN acc
    ELSE NameToCode(Tail(countries),
                    Put(acc, Head(countries).name, Head(countries).iso_alpha3))

RECURSIVE CodeToName(_, _)
\* countries.forEach(country => codeToName[country.iso_alpha3] = country.name)
CodeToName(countries, acc) ==
    IF countries = <<>> THEN acc
    ELSE CodeToName(Tail(countries),
                    Put(acc, Head(countries).iso_alpha3, Head(countries).name))

\* Promise.all over promise states: rejected as soon as one input is rejected,
\* resolved once all are resolved, pending otherwise.
PromiseAll(states) ==
    IF "rejected" \in states THEN "rejected"
    ELSE IF states = {"resolved"} THEN "resolved"
    ELSE "pending"

\* useState initial values, then the mount effect has run loadData() up to the
\* await: both fetches are in flight.
HomeInit(countriesResp, mappingsResp) ==
    [ mounted |-> TRUE,
      countriesResp |-> countriesResp,
      mappingsResp |-> mappingsResp,
      countries |-> "pending",
      mappings |-> "pending",
      countryNameToCode |-> <<>>,
      countryCodeToName |-> <<>>,
      countryMappings |-> <<>>,
      isLoadingCountries |-> TRUE ]

\* One of the two fetches settles.  If that settles the Promise.all, the code
\* after the await runs (try body or catch), then finally; a settlement after
\* the Promise.all has settled runs no code of the component.
HomeSettle(s, which, outcome) ==
    LET before == PromiseAll({s.countries, s.mappings})
        t == IF which = "countries" THEN [s EXCEPT !.countries = outcome]
                                    ELSE [s EXCEPT !.mappings = outcome]
        after == PromiseAll({t.countries, t.mappings})
    IN  IF before # "pending" \/ after = "pending" THEN t
        ELSE IF after = "resolved"
        THEN [t EXCEPT !.countryNameToCode = NameToCode(t.countriesResp, <<>>),
                       !.countryCodeToName = CodeToName(t.countriesResp, <<>>),
                       !.countryMappings = t.mappingsResp,
                       !.isLoadingCountries = FALSE]
        ELSE [t EXCEPT !.isLoadingCountries = FALSE]

(***************************************************************************)
(* CountryDetails: fetchData awaits Promise.all([fetchTradeSummary(840,id), *)
(* fetchCountryDetails(id)]) and re-runs when the countryId prop changes    *)
(***************************************************************************)
MaxDetailRequests == 2   \* fetchData runs of CountryDetails in a run

\* Values of the countryId prop; 0 stands for the ids the guard
\* (!id || isNaN(id)) rejects.
DetailIds == {0, 276, 392}

\* The response of fetchTradeSummary(840, id) and of fetchCountryDetails(id).
ServerTradeSummary(id) == [reporter |-> 840, partner |-> id]

ServerCountryDetails(id) == [id |-> id]

\* fetchData() up to the first await (or up to the early return).
DetailsFetchData(s, id) ==
    IF id = 0
    THEN [s EXCEPT !.countryId = id,
                   !.loading = FALSE,
                   !.error = "No valid country ID provided",
                   !.issued = s.issued + 1]
    ELSE [s EXCEPT !.countryId = id,
                   !.loading = TRUE,
                   !.error = Null,
                   !.issued = s.issued + 1,
                   !.pending = s.pending \cup
                       {[seq |-> s.issued + 1, id |-> id,
                         summary |-> "pending", info |-> "pending"]}]

DetailsInit(id) ==
    DetailsFetchData(
        [ mounted |-> TRUE, countryId |-> id, tradeData |-> None, country |-> None,
          loading |-> TRUE, error |-> Null, issued |-> 0, pending |-> {},
          settled |-> {} ],
        id)

\* One fetch of request r settles; the code after the await runs when that
\* settles the request's Promise.all.
DetailsSettle(s, r, which, outcome) ==
    LET before == PromiseAll({r.summary, r.info})
        q == IF which = "summary" THEN [r EXCEPT !.summary = outcome]
                                  ELSE [r EXCEPT !.info = outcome]
        after == PromiseAll({q.summary, q.info})
        t == [s EXCEPT !.pending = (s.pending \ {r}) \cup
                                   (IF "pending" \in {q.summary, q.info} THEN {q} ELSE {}),
                       !.settled = IF "pending" \in {q.summary, q.info}
                                   THEN s.settled ELSE s.settled \cup {q}]
    IN  IF before # "pending" \/ after = "pending" THEN t
        ELSE IF after = "resolved"
        THEN [t EXCEPT !.tradeData = Some(ServerTradeSummary(q.id)),
                       !.country = Some(ServerCountryDetails(q.id)),
                       !.loading = FALSE]
        ELSE [t EXCEPT !.error = "Failed to load country details",
                       !.loading = FALSE]

(***************************************************************************)
(* SpecLoad: the two components that join two fetches with Promise.all     *)
(***************************************************************************)
LoadInit ==
    /\ \E c \in CountryLists, m \in MappingTables : home = HomeInit(c, m)
    /\ \E id \in DetailIds : details = DetailsInit(id)
    /\ tdm = Unmounted
    /\ cts = Unmounted
    /\ map = Unmounted
    /\ reg = Unmounted

HomeCountriesSettles ==
    \E outcome \in {"resolved", "rejected"} :
        /\ home.countries = "pending"
        /\ home' = HomeSettle(home, "countries", outcome)
        /\ UNCHANGED <<tdm, cts, details, map, reg>>

HomeMappingsSettles ==
    \E outcome \in {"resolved", "rejected"} :
        /\ home.mappings = "pending"
        /\ home' = HomeSettle(home, "mappings", outcome)
        /\ UNCHANGED <<tdm, cts, details, map, reg>>

DetailsSetCountryId ==
    \E id \in DetailIds \ {details.countryId} :
        /\ details.issued < MaxDetailRequests
        /\ details' = DetailsFetchData(details, id)
        /\ UNCHANGED <<tdm, cts, home, map, reg>>

DetailsSummarySettles ==
    /\ details.mounted
    /\ \E r \in details.pending, outcome \in {"resolved", "rejected"} :
        /\ r.summary = "pending"
        /\ details' = DetailsSettle(details, r, "summary", outcome)
        /\ UNCHANGED <<tdm, cts, home, map, reg>>

DetailsInfoSettles ==
    /\ details.mounted
    /\ \E r \in details.pending, outcome \in {"resolved", "rejected"} :
        /\ r.info = "pending"
        /\ details' = DetailsSettle(details, r, "info", outcome)
        /\ UNCHANGED <<tdm, cts, home, map, reg>>

LoadNext ==
    \/ HomeCountriesSettles
    \/ HomeMappingsSettles
    \/ DetailsSetCountryId
    \/ DetailsSummarySettles
    \/ DetailsInfoSettles

SpecLoad == LoadInit /\ [][LoadNext]_vars

\* C7 (partial-failure isolation): a source that resolved is stored even when
\* the other source of the same load rejected: the country tables are set
\* from a resolved country list although the mappings fetch rejected, and a
\* resolved trade summary is stored although the country-details fetch
\* rejected.
C7_PartialFailureIsolation ==
    /\ (home.countries = "resolved" /\ home.mappings = "rejected")
          => /\ home.countryNameToCode = NameToCode(home.countriesResp, <<>>)
             /\ home.countryCodeToName = CodeToName(home.countriesResp, <<>>)
    /\ \A r \in details.settled :
          (details.issued = 1 /\ r.summary = "resolved" /\ r.info = "rejected")
              => details.tradeData = Some(ServerTradeSummary(r.id))


(***************************************************************************)
(* JavaScript numbers: a rational n/d (d > 0), NaN, null or undefined      *)
(***************************************************************************)
JNum(n, d) == [t |-> "num", n |-> n, d |-> d]

JNaN == [t |-> "NaN"]

JNull == [t |-> "null"]

JUndefined == [t |-> "undefined"]

\* ToNumber(x), as the operators / and unary + apply it: null is 0,
\* undefined is NaN.
ToNumber(x) ==
    CASE x.t = "num"  -> x
      [] x.t = "null" -> JNum(0, 1)
      [] OTHER        -> JNaN

\* x / k for a positive integer literal k.
JDiv(x, k) ==
    LET y == ToNumber(x)
    IN  IF y.t = "num" THEN JNum(y.n, y.d * k) ELSE JNaN

\* !x for a number-typed value: 0, NaN, null and undefined are falsy.
JFalsy(x) == x.t # "num" \/ x.n = 0

\* Math.min(x, k) for an integer literal k.
JMin(x, k) ==
    LET y == ToNumber(x)
    IN  IF y.t # "num" THEN JNaN
        ELSE IF y.n > k * y.d THEN JNum(k, 1) ELSE y

\* !s for a string-typed value: undefined, null and '' are falsy.
Falsy(str) == str \in {Undefined, Null, ""}

(***************************************************************************)
(* Colors are RGB triples; the empty tuple is "undefined" (no color)       *)
(***************************************************************************)
NoColor == <<>>

MissingColor == <<241, 245, 249>>        \* '#F1F5F9'

\* d3 bisectRight(domain, x, 1, n - 1) on 1-based segments: the first segment
\* k of 1..n-1 whose upper stop exceeds x, else the last segment.
Segment(domain, n, x) ==
    IF \E k \in 1..(n - 1) : x.n < domain[k + 1] * x.d
    THEN CHOOSE k \in 1..(n - 1) :
            /\ x.n < domain[k + 1] * x.d
            /\ \A j \in 1..(k - 1) : ~(x.n < domain[j + 1] * x.d)
    ELSE n - 1

\* One channel of d3 interpolateRgb at x between stops k and k+1, formatted as
\* rgb(): a + (b - a) * t, rounded (Math.round) and clamped to 0..255.
Channel(a, b, d0, d1, x) ==
    LET den == (d1 - d0) * x.d
        num == a * den + (b - a) * (x.n - d0 * x.d)
        rounded == (2 * num + den) \div (2 * den)
    IN  IF rounded < 0 THEN 0 ELSE IF rounded > 255 THEN 255 ELSE rounded

\* d3 scaleLinear().domain(domain).range(range) applied to v: the scale uses
\* min(#domain, #range) stops, is not clamped unless .clamp(true) was called,
\* and returns undefined for an input that is NaN after ToNumber.
ScaleLinear(domain, range, v) ==
    LET x == ToNumber(v)
        n == IF Len(domain) < Len(range) THEN Len(domain) ELSE Len(range)
    IN  IF x.t # "num" THEN NoColor
        ELSE LET k == Segment(domain, n, x)
             IN  << Channel(range[k][1], range[k + 1][1], domain[k], domain[k + 1], x),
                    Channel(range[k][2], range[k + 1][2], domain[k], domain[k + 1], x),
                    Channel(range[k][3], range[k + 1][3], domain[k], domain[k + 1], x) >>

\* A threshold scale that bisects to the left: a value equal to a breakpoint
\* falls into the bucket below it.
ScaleThreshold_BisectLeft(domain, range, v) ==
    IF v.t # "num" THEN NoColor
    ELSE range[1 + Cardinality({k \in 1..Len(domain) : domain[k] * v.d < v.n})]

\* d3 scaleThreshold().domain(domain).range(range) applied to v:
\* range[bisectRight(domain, v, 0, n)] with n = min(#domain, #range - 1), and
\* undefined for null, undefined and NaN (the test v != null && v <= v).
ScaleThreshold(domain, range, v) ==
    LET n == IF Len(domain) < Len(range) - 1 THEN Len(domain) ELSE Len(range) - 1
    IN  IF v.t # "num" THEN NoColor
        ELSE range[1 + Cardinality({k \in 1..n : domain[k] * v.d <= v.n})]

(***************************************************************************)
(* Zoom: handleZoomIn / handleZoomOut, the same in every map variant.      *)
(* The zoom level is kept as an exact fraction n/d in lowest terms.        *)
(***************************************************************************)
RECURSIVE GCD(_, _)
GCD(a, b) == IF b = 0 THEN a ELSE GCD(b, a % b)

Rat(n, d) == [n |-> n \div GCD(n, d), d |-> d \div GCD(n, d)]

ZoomInitial == 1      \* useState(1)
ZoomMin == 1          \* Math.max(prev / 1.5, 1)
ZoomMax == 4          \* Math.min(prev * 1.5, 4)
ZoomStepNum == 3      \* the factor 1.5 as the fraction 3/2
ZoomStepDen == 2

\* The step without the upper clamp: setZoom(prev => prev * 1.5)
handleZoomIn_Unclamped(zoom) == Rat(zoom.n * ZoomStepNum, zoom.d * ZoomStepDen)

\* A zoom-in step by the factor 2 instead of 1.5.
handleZoomIn_Doubles(zoom) ==
    IF 2 * zoom.n > ZoomMax * zoom.d THEN Rat(ZoomMax, 1) ELSE Rat(2 * zoom.n, zoom.d)

\* A zoom-out step by the factor 2 instead of 1.5.
handleZoomOut_Halves(zoom) ==
    IF zoom.n < 2 * ZoomMin * zoom.d THEN Rat(ZoomMin, 1) ELSE Rat(zoom.n, 2 * zoom.d)

\* setZoom(prev => Math.min(prev * 1.5, 4))
handleZoomIn(zoom) ==
    LET z == Rat(zoom.n * ZoomStepNum, zoom.d * ZoomStepDen)
    IN  IF z.n > ZoomMax * z.d THEN Rat(ZoomMax, 1) ELSE z

\* setZoom(prev => Math.max(prev / 1.5, 1))
handleZoomOut(zoom) ==
    LET z == Rat(zoom.n * ZoomStepDen, zoom.d * ZoomStepNum)
    IN  IF z.n < ZoomMin * z.d THEN Rat(ZoomMin, 1) ELSE z


(***************************************************************************)
(* The boundary features the maps render (world-atlas countries-110m):     *)
(* geo.id, geo.properties.name, geo.properties.ISO_A3.  Some features of   *)
(* the data set carry no id and no ISO_A3.                                 *)
(***************************************************************************)
GeoUSA == [id |-> "840", name |-> "United States of America", ISO_A3 |-> "USA"]

GeoDEU == [id |-> "276", name |-> "Germany", ISO_A3 |-> "DEU"]

GeoJPN == [id |-> "392", name |-> "Japan", ISO_A3 |-> "JPN"]

GeoKOS == [id |-> Undefined, name |-> "Kosovo", ISO_A3 |-> Undefined]

\* A feature whose name is contained in the name of another country (Nigeria).
GeoNER == [id |-> "562", name |-> "Niger", ISO_A3 |-> "NER"]

\* A feature whose numeric id has leading zeros.
GeoAFG == [id |-> "004", name |-> "Afghanistan", ISO_A3 |-> "AFG"]

Geos == {GeoUSA, GeoDEU, GeoJPN, GeoKOS, GeoNER}

\* The argument slot of a handler that takes no feature.
NoGeo == [id |-> "", name |-> "", ISO_A3 |-> ""]

HomeName == "United States of America"

MaxCoord == 2        \* pointer coordinates are drawn from 1..MaxCoord

(***************************************************************************)
(* The map variants of the repository                                      *)
(***************************************************************************)
Variants ==
    { "WorldMapTsx",         \* src/components/WorldMap.tsx (data prop)
      "WorldMapIso",         \* unnamed/part_011:1-316 (useTariffData, ISO_A3 keys)
      "WorldMapEU",          \* unnamed/part_011:317-780 (loadTariffData, name keys)
      "UsDeficitMap",        \* frontend/src/components/UsDeficitMap.tsx
      "UsTariffMap",         \* unnamed/part_007
      "TradeDeficitMapId",   \* unnamed/part_009
      "TradeDeficitMap",     \* unnamed/part_010 (countryNameToCode prop)
      "UsTariffMapTabs" }    \* unnamed/part_008 (threshold scale)

\* Variants whose data arrives through a fetch issued on mount.
Fetching == Variants \ {"WorldMapTsx"}

(***************************************************************************)
(* What the parent passes in, and what the metrics service may answer      *)
(***************************************************************************)
\* WorldMap.tsx: the data prop, keyed by feature name.
DataProps ==
    { << [k |-> "Germany", v |-> [usImportTariff |-> JNum(12, 1)]],
         [k |-> "Japan", v |-> [usImportTariff |-> JNum(60, 1)]] >>,
      << [k |-> "Germany", v |-> [usImportTariff |-> JNull]],
         [k |-> HomeName, v |-> [usImportTariff |-> JNum(5, 1)]] >> }

\* fetchTariffMap() of frontend/src/services: records keyed by country_code.
\* The second response names Germany by the alias 'GER'.
TariffResponses ==
    { << [country_code |-> "DEU", country_name |-> "Germany", claimed_tariff |-> JNum(12, 1)],
         [country_code |-> "JPN", country_name |-> "Japan", claimed_tariff |-> JNum(24, 1)] >>,
      << [country_code |-> "GER", country_name |-> "Germany", claimed_tariff |-> JNum(12, 1)],
         [country_code |-> "USA", country_name |-> HomeName, claimed_tariff |-> JNum(0, 1)] >> }

\* fetchTariffMap() of src/services: records with country_name, among them the
\* aggregate 'European Union'.
EuTariffResponses ==
    { << [country_name |-> "European Union", us_reciprocal_tariff |-> JNum(20, 1),
          trump_claimed_tariff |-> JNum(39, 1)],
         [country_name |-> "Germany", us_reciprocal_tariff |-> JNum(10, 1),
          trump_claimed_tariff |-> JNum(15, 1)],
         [country_name |-> "Japan", us_reciprocal_tariff |-> JNum(24, 1),
          trump_claimed_tariff |-> JNum(46, 1)] >>,
      << [country_name |-> "Germany", us_reciprocal_tariff |-> JNum(10, 1),
          trump_claimed_tariff |-> JNum(15, 1)] >>,
      << [country_name |-> "Japan", us_reciprocal_tariff |-> JNum(24, 1),
          trump_claimed_tariff |-> JNum(46, 1)],
         [country_name |-> "European Union", us_reciprocal_tariff |-> JNum(20, 1),
          trump_claimed_tariff |-> JNum(39, 1)] >>,
      << [country_name |-> "Nigeria", us_reciprocal_tariff |-> JNum(14, 1),
          trump_claimed_tariff |-> JNum(27, 1)],
         [country_name |-> "Niger", us_reciprocal_tariff |-> JNum(10, 1),
          trump_claimed_tariff |-> JNum(10, 1)] >> }

\* fetchDeficitMap(): records with country_id and deficit_thousands.
DeficitResponses ==
    { << [country_id |-> "276", country_name |-> "Germany", deficit_thousands |-> -70000000],
         [country_id |-> "392", country_name |-> "Japan", deficit_thousands |-> 5000000] >>,
      << [country_id |-> "840", country_name |-> HomeName, deficit_thousands |-> 0],
         [country_id |-> "4", country_name |-> "Afghanistan", deficit_thousands |-> 12000] >>,
      << >> }

\* fetchUsTariffMap(): records with country_id.
UsTariffResponses ==
    { << [country_id |-> "276", tariff_rate_1 |-> JNum(20, 1), tariff_rate_2 |-> JNum(10, 1),
          date_1 |-> "2025-04-02", date_2 |-> "2025-04-09"],
         [country_id |-> "392", tariff_rate_1 |-> JNum(24, 1), tariff_rate_2 |-> JNum(10, 1),
          date_1 |-> "2025-04-02", date_2 |-> "2025-04-09"] >>,
      << [country_id |-> "840", tariff_rate_1 |-> JNum(0, 1), tariff_rate_2 |-> JNum(0, 1),
          date_1 |-> "2025-04-02", date_2 |-> "2025-04-09"],
         [country_id |-> "4", tariff_rate_1 |-> JNum(10, 1), tariff_rate_2 |-> JNum(10, 1),
          date_1 |-> "2025-04-02", date_2 |-> "2025-04-09"] >>,
      << [country_id |-> "276", tariff_rate_1 |-> JNum(19, 2), tariff_rate_2 |-> JNum(150, 1),
          date_1 |-> "2025-04-02", date_2 |-> "2025-04-09"],
         [country_id |-> "392", tariff_rate_1 |-> JNum(200, 1), tariff_rate_2 |-> JNum(149, 1),
          date_1 |-> "2025-04-02", date_2 |-> "2025-04-09"] >> }

\* fetchTradeDeficitMap(year, reporterId) as unnamed/part_009 reads it: records
\* with country_id and deficit_thousands (a number, or null for "no value").
DeficitEntryResponses ==
    { << [country_id |-> "276", deficit_thousands |-> JNum(-70000000, 1)],
         [country_id |-> "392", deficit_thousands |-> JNull] >>,
      << [country_id |-> "840", deficit_thousands |-> JNum(0, 1)] >> }

Responses(variant) ==
    CASE variant = "WorldMapTsx"       -> DataProps
      [] variant = "WorldMapIso"       -> TariffResponses
      [] variant = "WorldMapEU"        -> EuTariffResponses
      [] variant = "UsDeficitMap"      -> DeficitResponses
      [] variant = "UsTariffMap"       -> UsTariffResponses
      [] variant = "TradeDeficitMapId" -> DeficitEntryResponses
      [] variant = "TradeDeficitMap"   -> {ServerDeficits(year) : year \in Years}
      [] variant = "UsTariffMapTabs"   -> UsTariffResponses


(***************************************************************************)
(* Loading: what each variant stores when its fetch settles                *)
(***************************************************************************)
\* useTariffData.loadData: acc[item.country_code] = item
RECURSIVE ReduceByCode(_, _)
ReduceByCode(tariffs, acc) ==
    IF tariffs = <<>> THEN acc
    ELSE ReduceByCode(Tail(tariffs), Put(acc, Head(tariffs).country_code, Head(tariffs)))

\* useUsTariffData.loadData and fetchData of unnamed/part_009:
\* acc[item.country_id] = item
RECURSIVE ReduceById(_, _)
ReduceById(items, acc) ==
    IF items = <<>> THEN acc
    ELSE ReduceById(Tail(items), Put(acc, Head(items).country_id, Head(items)))

\* loadTariffData of unnamed/part_011: acc[item.country_name] = {rates}
RECURSIVE ReduceByName(_, _)
ReduceByName(tariffs, acc) ==
    IF tariffs = <<>> THEN acc
    ELSE ReduceByName(Tail(tariffs),
            Put(acc, Head(tariffs).country_name,
                [us_reciprocal_tariff |-> Head(tariffs).us_reciprocal_tariff,
                 trump_claimed_tariff |-> Head(tariffs).trump_claimed_tariff]))

EuropeanUnion == "European Union"

EU_COUNTRIES ==
    << "Austria", "Belgium", "Bulgaria", "Croatia", "Cyprus", "Czech Republic",
       "Denmark", "Estonia", "Finland", "France", "Germany", "Greece",
       "Hungary", "Ireland", "Italy", "Latvia", "Lithuania", "Luxembourg",
       "Malta", "Netherlands", "Poland", "Portugal", "Romania", "Slovakia",
       "Slovenia", "Spain", "Sweden" >>

IsEU(countryName) == \E i \in 1..Len(EU_COUNTRIES) : EU_COUNTRIES[i] = countryName

\* A load that leaves the members of the aggregate without its record.
AssignEach_Skipped(countries, tariffMap, euTariff) == tariffMap

\* EU_COUNTRIES.forEach(country => { tariffMap[country] = euTariff; })
RECURSIVE AssignEach(_, _, _)
AssignEach(countries, tariffMap, euTariff) ==
    IF countries = <<>> THEN tariffMap
    ELSE AssignEach(Tail(countries), Put(tariffMap, Head(countries), euTariff), euTariff)

\* The table loadTariffData hands to setTariffData.
EuTariffMap(tariffs) ==
    LET tariffMap == ReduceByName(tariffs, <<>>)
    IN  IF Has(tariffMap, EuropeanUnion)
        THEN AssignEach(EU_COUNTRIES, tariffMap, Get(tariffMap, EuropeanUnion))
        ELSE tariffMap

\* String(id).padStart(3, '0')
PadStart3(str) ==
    IF Len(str) >= 3 THEN str
    ELSE IF Len(str) = 2 THEN "0" \o str
    ELSE IF Len(str) = 1 THEN "00" \o str
    ELSE "000"

\* deficitMap of UsDeficitMap: acc[paddedId] = {deficit, country_name}
RECURSIVE ReducePadded(_, _)
ReducePadded(deficits, acc) ==
    IF deficits = <<>> THEN acc
    ELSE ReducePadded(Tail(deficits),
            Put(acc, PadStart3(Head(deficits).country_id),
                [deficit |-> Head(deficits).deficit_thousands,
                 country_name |-> Head(deficits).country_name]))

\* What the success path of the variant's fetch stores as its data.
Loaded(variant, response) ==
    CASE variant = "WorldMapIso"       -> ReduceByCode(response, <<>>)
      [] variant = "WorldMapEU"        -> EuTariffMap(response)
      [] variant = "UsDeficitMap"      -> Some(response)
      [] variant = "UsTariffMap"       -> ReduceById(response, <<>>)
      [] variant = "TradeDeficitMapId" -> ReduceById(response, <<>>)
      [] variant = "TradeDeficitMap"   -> ReduceDeficits(response, <<>>)
      [] variant = "UsTariffMapTabs"   -> ReduceById(response, <<>>)

\* The message the failure path of the variant's fetch stores.
LoadError(variant) ==
    CASE variant = "WorldMapIso"       -> "Failed to load tariff data"
      [] variant = "WorldMapEU"        -> "Failed to load tariff data"
      [] variant = "UsDeficitMap"      -> "Failed to fetch deficit data"
      [] variant = "UsTariffMap"       -> "Failed to load US tariff data"
      [] variant = "TradeDeficitMapId" -> "Failed to load trade deficit data"
      [] variant = "TradeDeficitMap"   -> "Failed to load trade deficit data"
      [] variant = "UsTariffMapTabs"   -> "Failed to load US tariff data"

\* deficitMap memo of UsDeficitMap: {} until the response is stored.
deficitMap(s) == IF s.data = None THEN <<>> ELSE ReducePadded(s.data[1], <<>>)

\* A handler was entered: remember which, and start its list of callbacks.
Called(s, handler, geo, x, y) ==
    [s EXCEPT !.lastCall = [name |-> handler, geo |-> geo, x |-> x, y |-> y],
              !.emitted = <<>>]

\* The handler invokes one of the callbacks its parent passed in.
Emit(s, cb, code, name) ==
    [s EXCEPT !.emitted = Append(@, [cb |-> cb, code |-> code, name |-> name]),
              !.notifiedHover = IF cb = "onCountryHover" THEN code ELSE @]

MobileBreakpoint == 768      \* window.innerWidth < 768

\* Values of window.innerWidth.
Widths == {500, 1024}

\* checkMobile: setIsMobile(window.innerWidth < 768).  src/components/WorldMap.tsx
\* has no such slot and no resize listener: its flag stays false.
checkMobile(s, width) ==
    [s EXCEPT !.width = width,
              !.isMobile = s.variant # "WorldMapTsx" /\ width < MobileBreakpoint]

\* The component after its first render and mount effects.
MapMount(variant, response, width) ==
    [ mounted         |-> TRUE,
      width           |-> width,
      isMobile        |-> variant # "WorldMapTsx" /\ width < MobileBreakpoint,
      countryNameToCode |-> <<>>,
      activeTab       |-> IF variant = "UsTariffMap" THEN 1
                          ELSE IF variant = "UsTariffMapTabs" THEN 2 ELSE 0,
      variant         |-> variant,
      response        |-> response,
      fetch           |-> IF variant \in Fetching THEN "pending" ELSE "none",
      loading         |-> variant \in Fetching,
      error           |-> Null,
      data            |-> IF variant = "WorldMapTsx" THEN response
                          ELSE IF variant = "UsDeficitMap" THEN None ELSE <<>>,
      tooltipData     |-> None,
      hoveredCountry  |-> Null,
      selectedCountry |-> Null,
      zoom            |-> Rat(ZoomInitial, 1),
      lastCall        |-> [name |-> "mount", geo |-> NoGeo, x |-> 0, y |-> 0],
      emitted         |-> <<>>,
      notifiedHover   |-> Null ]

\* The variants whose load tests `mounted` before every setter: those of the
\* hooks useTariffData and useUsTariffData, whose effect cleanup clears the
\* flag.  useDeficitData and the loads inside the components have no flag.
MountedFlag == {"WorldMapIso", "UsTariffMap", "UsTariffMapTabs"}

\* The setters run unless the load has a `mounted` flag and it was cleared.
Stores(s) == s.mounted \/ s.variant \notin MountedFlag

\* The success path of the fetch: store the data, clear the error (the hook
\* useDeficitData does not clear it), and finally setLoading(false).
MapResolved(s) ==
    IF ~Stores(s) THEN [Called(s, "loadData", NoGeo, 0, 0) EXCEPT !.fetch = "resolved"]
    ELSE
    [Called(s, "loadData", NoGeo, 0, 0) EXCEPT
        !.fetch = "resolved",
        !.data = Loaded(s.variant, s.response),
        !.error = IF s.variant = "UsDeficitMap" THEN @ ELSE Null,
        !.loading = FALSE]

\* The failure path: store the message, and finally setLoading(false).
MapRejected(s) ==
    IF ~Stores(s) THEN [Called(s, "loadData", NoGeo, 0, 0) EXCEPT !.fetch = "rejected"]
    ELSE
    [Called(s, "loadData", NoGeo, 0, 0) EXCEPT
        !.fetch = "rejected",
        !.error = LoadError(s.variant),
        !.loading = FALSE]

\* The component returns the "Loading Map..." or the error placeholder
\* instead of the map while loading or after an error; after the unmount
\* nothing is rendered.
Rendered(s) == s.mounted /\ ~s.loading /\ s.error = Null


(***************************************************************************)
(* String operations of the handlers                                       *)
(***************************************************************************)
\* The lower-case form of each upper-case letter.
LowerOf ==
    ("A" :> "a") @@ ("B" :> "b") @@ ("C" :> "c") @@ ("D" :> "d") @@ ("E" :> "e") @@ ("F" :> "f") @@
    ("G" :> "g") @@ ("H" :> "h") @@ ("I" :> "i") @@ ("J" :> "j") @@ ("K" :> "k") @@ ("L" :> "l") @@
    ("M" :> "m") @@ ("N" :> "n") @@ ("O" :> "o") @@ ("P" :> "p") @@ ("Q" :> "q") @@ ("R" :> "r") @@
    ("S" :> "s") @@ ("T" :> "t") @@ ("U" :> "u") @@ ("V" :> "v") @@ ("W" :> "w") @@ ("X" :> "x") @@
    ("Y" :> "y") @@ ("Z" :> "z")

LowerChar(c) == IF c \in DOMAIN LowerOf THEN LowerOf[c] ELSE c

\* str.toLowerCase()
RECURSIVE toLowerCase(_)
toLowerCase(str) ==
    IF str = "" THEN ""
    ELSE LowerChar(SubSeq(str, 1, 1)) \o toLowerCase(SubSeq(str, 2, Len(str)))

\* str.includes(sub)
includes(str, sub) ==
    \E i \in 1..(Len(str) - Len(sub) + 1) : SubSeq(str, i, i + Len(sub) - 1) = sub

IsDigit(c) == \E i \in 1..10 : SubSeq("0123456789", i, i) = c

DigitValue(c) == (CHOOSE i \in 1..10 : SubSeq("0123456789", i, i) = c) - 1

\* The value of the longest prefix of decimal digits, given the value so far.
RECURSIVE LeadingDigits(_, _)
LeadingDigits(str, acc) ==
    IF str = "" \/ ~IsDigit(SubSeq(str, 1, 1)) THEN acc
    ELSE LeadingDigits(SubSeq(str, 2, Len(str)), 10 * acc + DigitValue(SubSeq(str, 1, 1)))

\* parseInt(str) for a string without sign or blanks: NaN unless it starts
\* with a digit.
parseInt(str) ==
    IF str = "" \/ ~IsDigit(SubSeq(str, 1, 1)) THEN JNaN
    ELSE JNum(LeadingDigits(str, 0), 1)

(***************************************************************************)
(* Handlers of src/components/WorldMap.tsx                                 *)
(***************************************************************************)
\* The handler if it notified the parent only where it shows a tooltip.
Tsx_handleMouseEnter_Silent(s, geo, x, y) ==
    LET countryName == geo.name
    IN  IF countryName # HomeName /\ Has(s.data, countryName)
        THEN [Emit(s, "onCountryHover", countryName, countryName) EXCEPT !.tooltipData =
                 Some([countryName |-> countryName, data |-> Get(s.data, countryName),
                       x |-> x, y |-> y])]
        ELSE s

Tsx_handleMouseEnter(s, geo, x, y) ==
    LET countryName == geo.name
        s1 == Emit(s, "onCountryHover", countryName, countryName)
    IN  IF countryName # HomeName /\ Has(s.data, countryName)
        THEN [s1 EXCEPT !.tooltipData =
                 Some([countryName |-> countryName, data |-> Get(s.data, countryName),
                       x |-> x, y |-> y])]
        ELSE s1

Tsx_handleMouseLeave(s) ==
    Emit([s EXCEPT !.tooltipData = None], "onCountryHover", Null, Null)

Tsx_handleCountryClick(s, geo) ==
    IF geo.name # HomeName THEN Emit(s, "onCountryClick", geo.name, geo.name) ELSE s

(***************************************************************************)
(* Handlers of the WorldMap of unnamed/part_011:1-316                      *)
(***************************************************************************)
Iso_handleMouseEnter(s, geo, x, y) ==
    LET countryCode == geo.ISO_A3
    IN  IF Falsy(countryCode) THEN s
        ELSE IF ~Has(s.data, countryCode) THEN s
        ELSE Emit([s EXCEPT !.tooltipData =
                        Some([countryName |-> geo.name, data |-> Get(s.data, countryCode),
                              x |-> x, y |-> y]),
                     !.hoveredCountry = countryCode],
                  "onCountryHover", countryCode, countryCode)

\* A leave handler that clears the selection together with the hover.
Iso_handleMouseLeave_Deselects(s) ==
    [s EXCEPT !.tooltipData = None, !.hoveredCountry = Null, !.selectedCountry = Null]

Iso_handleMouseLeave(s) ==
    [s EXCEPT !.tooltipData = None, !.hoveredCountry = Null]

Iso_handleCountryClick(s, geo) ==
    LET countryCode == geo.ISO_A3
    IN  IF Falsy(countryCode) THEN s
        ELSE Emit([s EXCEPT !.selectedCountry = countryCode],
                  "onCountryClick", countryCode, countryCode)

(***************************************************************************)
(* Handlers of the WorldMap of unnamed/part_011:317-780                    *)
(***************************************************************************)
EU_handleMouseEnter(s, geo, x, y) ==
    LET countryName == geo.name
        s1 == Emit(s, "onCountryHover", countryName, countryName)
        direct == Has(s.data, countryName)
        viaEU == ~direct /\ IsEU(countryName) /\ Has(s.data, EuropeanUnion)
        countryData == IF direct THEN Get(s.data, countryName) ELSE Get(s.data, EuropeanUnion)
        displayName == IF viaEU THEN countryName \o " (EU)" ELSE countryName
    IN  IF countryName # HomeName /\ (direct \/ viaEU)
        THEN [s1 EXCEPT !.tooltipData =
                 Some([countryName |-> displayName,
                       data |-> [trump_claimed_tariff |-> countryData.trump_claimed_tariff,
                                 us_reciprocal_tariff |-> countryData.us_reciprocal_tariff],
                       x |-> x, y |-> y])]
        ELSE s1

EU_handleMouseLeave(s) ==
    Emit([s EXCEPT !.tooltipData = None], "onCountryHover", Null, Null)

\* countryEntries.find(([name, _]) => ...): the first entry, in the table's
\* order, whose lowercased name contains or is contained in the lowercased
\* feature name.
CloseMatches(tariffData, countryName) ==
    LET query == toLowerCase(countryName)
    IN  { i \in 1..Len(tariffData) :
            LET name == toLowerCase(tariffData[i].k)
            IN  includes(name, query) \/ includes(query, name) }

\* The same handler with the close match tried before the direct lookup.
EU_handleCountryClick_CloseFirst(s, geo) ==
    LET matches == CloseMatches(s.data, geo.name)
        first == CHOOSE i \in matches : \A j \in matches : i <= j
    IN  IF geo.name = HomeName THEN s
        ELSE IF matches # {}
             THEN Emit(s, "onCountryClick", s.data[first].k, s.data[first].k)
        ELSE s

EU_handleCountryClick(s, geo) ==
    LET countryName == geo.name
        matches == CloseMatches(s.data, countryName)
        first == CHOOSE i \in matches : \A j \in matches : i <= j
    IN  IF countryName = HomeName THEN s
        ELSE IF Has(s.data, countryName)
             THEN Emit(s, "onCountryClick", countryName, countryName)
        ELSE IF IsEU(countryName) /\ Has(s.data, EuropeanUnion)
             THEN Emit(s, "onCountryClick", countryName, countryName)
        ELSE IF matches # {}
             THEN Emit(s, "onCountryClick", s.data[first].k, s.data[first].k)
        ELSE s


(***************************************************************************)
(* Handlers of frontend/src/components/UsDeficitMap.tsx                    *)
(***************************************************************************)
HomeId == "840"

Deficit_handleMouseEnter(s, geo, x, y) ==
    LET countryId == geo.id
        countryName == geo.name
    IN  IF Falsy(countryId) \/ Falsy(countryName) THEN s
        ELSE IF Has(deficitMap(s), countryId)
        THEN [s EXCEPT !.tooltipData =
                 Some([data |-> [country_id |-> countryId,
                                 country_code |-> countryId,
                                 country_name |-> countryName,
                                 deficit_thousands |-> Get(deficitMap(s), countryId).deficit],
                       x |-> x, y |-> y])]
        ELSE s

Deficit_handleMouseLeave(s) == [s EXCEPT !.tooltipData = None]

Deficit_handleCountryClick(s, geo) ==
    IF Falsy(geo.id) \/ Falsy(geo.name) \/ geo.id = HomeId THEN s
    ELSE Emit(s, "onCountrySelect", geo.id, geo.name)

(***************************************************************************)
(* Handlers of the UsTariffMap of unnamed/part_007                         *)
(***************************************************************************)
UsTariff_handleMouseEnter(s, geo, x, y) ==
    LET countryId == geo.id
        countryName == geo.name
    IN  IF Falsy(countryId) \/ Falsy(countryName) THEN s
        ELSE IF Has(s.data, countryId)
        THEN [s EXCEPT !.tooltipData =
                 Some([countryName |-> countryName,
                       data |-> [tariff_rate_1 |-> Get(s.data, countryId).tariff_rate_1,
                                 tariff_rate_2 |-> Get(s.data, countryId).tariff_rate_2,
                                 date_1 |-> "April 2",
                                 date_2 |-> "April 9"],
                       x |-> x, y |-> y])]
        ELSE s

UsTariff_handleMouseLeave(s) == [s EXCEPT !.tooltipData = None]

UsTariff_handleCountryClick(s, geo) ==
    IF Falsy(geo.id) \/ Falsy(geo.name) THEN s
    ELSE Emit(s, "onCountrySelect", geo.id, geo.name)

(***************************************************************************)
(* Handlers of the TradeDeficitMap of unnamed/part_009                     *)
(***************************************************************************)
\* deficitData[countryId]?.deficit_thousands / 1000000 : the optional chain
\* yields undefined for a missing record, and undefined / 1000000 is NaN.
DeficitBillions(deficitData, countryId) ==
    JDiv(IF Has(deficitData, countryId)
         THEN Get(deficitData, countryId).deficit_thousands
         ELSE JUndefined, 1000000)

ById_handleMouseEnter(s, geo, x, y) ==
    LET countryId == geo.id
        countryName == geo.name
        deficit == DeficitBillions(s.data, countryId)
    IN  IF Falsy(countryId) \/ Falsy(countryName) THEN s
        ELSE IF deficit = JUndefined THEN s
        ELSE [s EXCEPT !.tooltipData =
                 Some([countryName |-> countryName,
                       data |-> [deficit |-> deficit, country_name |-> countryName],
                       x |-> x, y |-> y])]

ById_handleMouseLeave(s) == [s EXCEPT !.tooltipData = None]

ById_handleCountryClick(s, geo) ==
    IF Falsy(geo.id) \/ Falsy(geo.name) THEN s
    ELSE Emit(s, "onCountrySelect", parseInt(geo.id), geo.name)

(***************************************************************************)
(* The handler a feature's event props are bound to, by variant            *)
(***************************************************************************)
\* handleMouseEnter of the UsTariffMap of unnamed/part_008: the dates of the
\* tooltip are those of the record.  Its handleMouseLeave is that of part_007
\* and its handleCountryClick that of UsDeficitMap.
Tabs_handleMouseEnter(s, geo, x, y) ==
    IF Falsy(geo.id) \/ Falsy(geo.name) \/ ~Has(s.data, geo.id) THEN s
    ELSE [s EXCEPT !.tooltipData =
             Some([countryName |-> geo.name,
                   data |-> [tariff_rate_1 |-> Get(s.data, geo.id).tariff_rate_1,
                             tariff_rate_2 |-> Get(s.data, geo.id).tariff_rate_2,
                             date_1 |-> Get(s.data, geo.id).date_1,
                             date_2 |-> Get(s.data, geo.id).date_2],
                   x |-> x, y |-> y])]

(***************************************************************************)
(* Handlers of the TradeDeficitMap of unnamed/part_010, which resolves a   *)
(* feature by countryNameToCode[geo.properties.name]                       *)
(***************************************************************************)
TD_handleMouseEnter(s, geo, x, y) ==
    LET countryCode == IF Has(s.countryNameToCode, geo.name)
                       THEN Get(s.countryNameToCode, geo.name) ELSE Undefined
    IN  IF ~Falsy(countryCode) /\ Has(s.data, countryCode)
        THEN [s EXCEPT !.tooltipData =
                 Some([countryName |-> Get(s.data, countryCode).country_name,
                       data |-> Get(s.data, countryCode),
                       x |-> x, y |-> y])]
        ELSE s

\* The same handler without its test of the resolved code.
TD_handleCountryClick_Unchecked(s, geo) ==
    Emit([s EXCEPT !.selectedCountry = geo.name], "onCountrySelect", geo.name, geo.name)

TD_handleCountryClick(s, geo) ==
    LET countryCode == IF Has(s.countryNameToCode, geo.name)
                       THEN Get(s.countryNameToCode, geo.name) ELSE Undefined
    IN  IF ~Falsy(countryCode) /\ countryCode # "USA"
        THEN Emit([s EXCEPT !.selectedCountry = countryCode],
                  "onCountrySelect", countryCode, geo.name)
        ELSE s

handleMouseEnter(s, geo, x, y) ==
    LET c == Called(s, "handleMouseEnter", geo, x, y)
    IN  CASE s.variant = "WorldMapTsx"       -> Tsx_handleMouseEnter(c, geo, x, y)
          [] s.variant = "WorldMapIso"       -> Iso_handleMouseEnter(c, geo, x, y)
          [] s.variant = "WorldMapEU"        -> EU_handleMouseEnter(c, geo, x, y)
          [] s.variant = "UsDeficitMap"      -> Deficit_handleMouseEnter(c, geo, x, y)
          [] s.variant = "UsTariffMap"       -> UsTariff_handleMouseEnter(c, geo, x, y)
          [] s.variant = "TradeDeficitMapId" -> ById_handleMouseEnter(c, geo, x, y)
          [] s.variant = "TradeDeficitMap"   -> TD_handleMouseEnter(c, geo, x, y)
          [] s.variant = "UsTariffMapTabs"   -> Tabs_handleMouseEnter(c, geo, x, y)

handleMouseLeave(s) ==
    LET c == Called(s, "handleMouseLeave", NoGeo, 0, 0)
    IN  CASE s.variant = "WorldMapTsx"       -> Tsx_handleMouseLeave(c)
          [] s.variant = "WorldMapIso"       -> Iso_handleMouseLeave(c)
          [] s.variant = "WorldMapEU"        -> EU_handleMouseLeave(c)
          [] s.variant = "UsDeficitMap"      -> Deficit_handleMouseLeave(c)
          [] s.variant = "UsTariffMap"       -> UsTariff_handleMouseLeave(c)
          [] s.variant = "TradeDeficitMapId" -> ById_handleMouseLeave(c)
          [] s.variant = "TradeDeficitMap"   -> Deficit_handleMouseLeave(c)
          [] s.variant = "UsTariffMapTabs"   -> UsTariff_handleMouseLeave(c)

handleCountryClick(s, geo) ==
    LET c == Called(s, "handleCountryClick", geo, 0, 0)
    IN  CASE s.variant = "WorldMapTsx"       -> Tsx_handleCountryClick(c, geo)
          [] s.variant = "WorldMapIso"       -> Iso_handleCountryClick(c, geo)
          [] s.variant = "WorldMapEU"        -> EU_handleCountryClick(c, geo)
          [] s.variant = "UsDeficitMap"      -> Deficit_handleCountryClick(c, geo)
          [] s.variant = "UsTariffMap"       -> UsTariff_handleCountryClick(c, geo)
          [] s.variant = "TradeDeficitMapId" -> ById_handleCountryClick(c, geo)
          [] s.variant = "TradeDeficitMap"   -> TD_handleCountryClick(c, geo)
          [] s.variant = "UsTariffMapTabs"   -> Deficit_handleCountryClick(c, geo)


(***************************************************************************)
(* Fill colors                                                             *)
(***************************************************************************)
\* createColorScale() of the variant's file: the kind of d3 scale with the
\* arguments of its .domain() and .range() calls.
createColorScale(variant) ==
    CASE variant = "WorldMapTsx" ->
            [type |-> "linear", domain |-> <<0, 10, 20, 30, 40, 50>>,
             range |-> << <<241, 245, 249>>, <<226, 232, 240>>, <<148, 163, 184>>,
                          <<71, 85, 105>>, <<30, 41, 59>>, <<15, 23, 42>> >>]
      [] variant \in {"WorldMapIso", "WorldMapEU"} ->
            [type |-> "linear", domain |-> <<0, 10, 20, 30, 40, 50, 60, 70>>,
             range |-> << <<241, 245, 249>>, <<203, 213, 225>>, <<148, 163, 184>>,
                          <<71, 85, 105>>, <<30, 41, 59>>, <<15, 23, 42>>, <<2, 6, 23>> >>]
      [] variant = "UsTariffMap" ->
            [type |-> "linear", domain |-> <<0, 25, 50, 75, 100, 125, 150>>,
             range |-> << <<254, 215, 170>>, <<253, 186, 116>>, <<251, 146, 60>>,
                          <<249, 115, 22>>, <<234, 88, 12>>, <<194, 65, 12>>,
                          <<154, 52, 18>> >>]
      [] variant = "UsTariffMapTabs" ->
            [type |-> "threshold", domain |-> <<10, 15, 20, 30, 50, 100, 150>>,
             range |-> << <<224, 224, 224>>, <<255, 228, 204>>, <<255, 212, 163>>,
                          <<251, 146, 60>>, <<249, 115, 22>>, <<234, 88, 12>>,
                          <<194, 65, 12>>, <<154, 52, 18>> >>]

Tsx_colorScale(v) ==
    ScaleLinear(createColorScale("WorldMapTsx").domain,
                createColorScale("WorldMapTsx").range, v)

Tsx_US_fill == <<16, 169, 129>>          \* '#10A981'

Tsx_getCountryColor(data, countryName) ==
    IF countryName = HomeName THEN Tsx_US_fill
    ELSE IF ~Has(data, countryName) THEN MissingColor
    ELSE IF JFalsy(Get(data, countryName).usImportTariff) THEN MissingColor
    ELSE Tsx_colorScale(JMin(Get(data, countryName).usImportTariff, 50))

\* createColorScale of both WorldMaps of unnamed/part_011
WorldMap_colorScale(v) ==
    ScaleLinear(createColorScale("WorldMapEU").domain,
                createColorScale("WorldMapEU").range, v)

US_fill == <<196, 195, 200>>             \* '#C4C3C8'

Iso_getCountryColor(tariffData, geo) ==
    LET countryCode == geo.ISO_A3
    IN  IF Falsy(countryCode) THEN MissingColor
        ELSE IF countryCode = "USA" THEN US_fill
        ELSE IF Has(tariffData, countryCode)
             THEN WorldMap_colorScale(Get(tariffData, countryCode).claimed_tariff)
        ELSE MissingColor

EU_getCountryColor(tariffData, countryName) ==
    IF countryName = HomeName THEN US_fill
    ELSE IF Has(tariffData, countryName)
         THEN WorldMap_colorScale(Get(tariffData, countryName).us_reciprocal_tariff)
    ELSE MissingColor

ById_colorScale(v) ==
    ScaleLinear(<<-50, -25, 0, 25, 50>>,
                << <<127, 29, 29>>, <<239, 68, 68>>, <<255, 255, 255>>,
                   <<34, 197, 94>>, <<22, 101, 52>> >>, v)

\* getCountryColor of unnamed/part_009
ById_getCountryColor(deficitData, geo) ==
    LET countryId == geo.id
        deficit == DeficitBillions(deficitData, countryId)
    IN  IF Falsy(countryId) THEN MissingColor
        ELSE IF countryId = "USA" THEN US_fill
        ELSE IF deficit = JUndefined THEN MissingColor
        ELSE ById_colorScale(deficit)

(***************************************************************************)
(* The map components as a state machine                                   *)
(***************************************************************************)
MapInit ==
    /\ \E variant \in Variants : \E response \in Responses(variant) :
          \E width \in Widths : \E countries \in CountryLists :
             map = [MapMount(variant, response, width) EXCEPT
                       !.countryNameToCode =
                           IF variant = "TradeDeficitMap"
                           THEN NameToCode(countries, <<>>) ELSE <<>>]
    /\ tdm = Unmounted
    /\ cts = Unmounted
    /\ home = Unmounted
    /\ details = Unmounted
    /\ reg = Unmounted

MapFetchResolves ==
    /\ map.fetch = "pending"
    /\ map' = MapResolved(map)
    /\ UNCHANGED <<tdm, cts, home, details, reg>>

MapFetchRejects ==
    /\ map.fetch = "pending"
    /\ map' = MapRejected(map)
    /\ UNCHANGED <<tdm, cts, home, details, reg>>

MouseEnter ==
    /\ Rendered(map)
    /\ \E geo \in Geos : \E c \in 1..MaxCoord :
          map' = handleMouseEnter(map, geo, c, c + 1)
    /\ UNCHANGED <<tdm, cts, home, details, reg>>

MouseLeave ==
    /\ Rendered(map)
    /\ map' = handleMouseLeave(map)
    /\ UNCHANGED <<tdm, cts, home, details, reg>>

Click ==
    /\ Rendered(map)
    /\ \E geo \in Geos : map' = handleCountryClick(map, geo)
    /\ UNCHANGED <<tdm, cts, home, details, reg>>

ZoomIn ==
    /\ Rendered(map)
    /\ map' = [Called(map, "handleZoomIn", NoGeo, 0, 0) EXCEPT !.zoom = handleZoomIn(@)]
    /\ UNCHANGED <<tdm, cts, home, details, reg>>

ZoomOut ==
    /\ Rendered(map)
    /\ map' = [Called(map, "handleZoomOut", NoGeo, 0, 0) EXCEPT !.zoom = handleZoomOut(@)]
    /\ UNCHANGED <<tdm, cts, home, details, reg>>

\* Variants whose features carry onTouchStart / onTouchEnd.
Touchable == {"WorldMapIso", "WorldMapEU", "UsDeficitMap", "UsTariffMapTabs"}

\* Variants that register a scroll listener on the window.
Scrollable == {"WorldMapEU", "UsDeficitMap", "UsTariffMapTabs"}

\* part_011:146-149: event.preventDefault(); handleMouseEnter(geo, event).  The
\* event is a TouchEvent, whose clientX and clientY the handler reads.
Iso_handleTouchStart(s, geo, x, y) == Iso_handleMouseEnter(s, geo, 0, 0)

\* part_011:151-154: event.preventDefault(); handleMouseLeave().
Iso_handleTouchEnd(s) == Iso_handleMouseLeave(s)

\* A touch start of part_011:573-602 that does not call onCountryHover.
EU_handleTouchStart_Silent(s, geo, x, y) ==
    [EU_handleMouseEnter(s, geo, x, y) EXCEPT !.emitted = s.emitted,
                                              !.notifiedHover = s.notifiedHover]

\* part_011:573-602: onCountryHover(countryName), then the tooltip with the
\* first touch's coordinates for a feature other than the home country that
\* has data of its own or through the 'European Union' record.
EU_handleTouchStart(s, geo, x, y) ==
    LET countryName == geo.name
        s1 == Emit(s, "onCountryHover", countryName, countryName)
        own == Has(s.data, countryName)
        aggregate == ~own /\ IsEU(countryName) /\ Has(s.data, EuropeanUnion)
        countryData == IF own THEN Get(s.data, countryName) ELSE Get(s.data, EuropeanUnion)
    IN  IF countryName = HomeName \/ ~(own \/ aggregate) THEN s1
        ELSE [s1 EXCEPT !.tooltipData =
                 Some([countryName |-> IF aggregate THEN countryName \o " (EU)"
                                       ELSE countryName,
                       data |-> [trump_claimed_tariff |-> countryData.trump_claimed_tariff,
                                 us_reciprocal_tariff |-> countryData.us_reciprocal_tariff],
                       x |-> x, y |-> y])]

\* part_011:604-607: setTooltipData(null); onCountryHover(null).
EU_handleTouchEnd(s) ==
    Emit([s EXCEPT !.tooltipData = None], "onCountryHover", Null, Null)

\* UsDeficitMap.tsx:186-212: the tooltip of the feature's record in deficitMap
\* with the first touch's coordinates; nothing for a feature without id, name
\* or record.
Deficit_handleTouchStart(s, geo, x, y) ==
    IF Falsy(geo.id) \/ Falsy(geo.name) THEN s
    ELSE IF ~Has(deficitMap(s), geo.id) THEN s
    ELSE [s EXCEPT !.tooltipData =
             Some([data |-> [country_id |-> geo.id,
                             country_code |-> geo.id,
                             country_name |-> geo.name,
                             deficit_thousands |-> Get(deficitMap(s), geo.id).deficit],
                   x |-> x, y |-> y])]

\* UsDeficitMap.tsx:214-216 and part_008:186-188: setTooltipData(null).
Deficit_handleTouchEnd(s) == [s EXCEPT !.tooltipData = None]

\* part_008:164-184: the tooltip of the feature's record in tariffData with the
\* first touch's coordinates.
Tabs_handleTouchStart(s, geo, x, y) ==
    IF Falsy(geo.id) \/ Falsy(geo.name) THEN s
    ELSE IF ~Has(s.data, geo.id) THEN s
    ELSE LET countryData == Get(s.data, geo.id)
         IN  [s EXCEPT !.tooltipData =
                 Some([countryName |-> geo.name,
                       data |-> [tariff_rate_1 |-> countryData.tariff_rate_1,
                                 tariff_rate_2 |-> countryData.tariff_rate_2,
                                 date_1 |-> countryData.date_1,
                                 date_2 |-> countryData.date_2],
                       x |-> x, y |-> y])]

\* handleTouchStart(geo, event).  In part_011:146-149 it passes the touch event
\* to handleMouseEnter, which reads event.clientX / clientY: a TouchEvent has
\* neither, so the tooltip gets undefined coordinates (0 here).  The other
\* variants repeat the body of handleMouseEnter with event.touches[0].
TouchStart ==
    /\ Rendered(map)
    /\ map.variant \in Touchable
    /\ \E geo \in Geos : \E c \in 1..MaxCoord :
          LET s == Called(map, "handleTouchStart", geo, c, c + 1)
          IN  map' = CASE map.variant = "WorldMapIso"  -> Iso_handleTouchStart(s, geo, c, c + 1)
                       [] map.variant = "WorldMapEU"   -> EU_handleTouchStart(s, geo, c, c + 1)
                       [] map.variant = "UsDeficitMap" -> Deficit_handleTouchStart(s, geo, c, c + 1)
                       [] map.variant = "UsTariffMapTabs" -> Tabs_handleTouchStart(s, geo, c, c + 1)
    /\ UNCHANGED <<tdm, cts, home, details, reg>>

\* handleTouchEnd(): the same statements as the variant's handleMouseLeave.
TouchEnd ==
    /\ Rendered(map)
    /\ map.variant \in Touchable
    /\ LET s == Called(map, "handleTouchEnd", NoGeo, 0, 0)
       IN  map' = CASE map.variant = "WorldMapIso"  -> Iso_handleTouchEnd(s)
                    [] map.variant = "WorldMapEU"   -> EU_handleTouchEnd(s)
                    [] map.variant = "UsDeficitMap" -> Deficit_handleTouchEnd(s)
                    [] map.variant = "UsTariffMapTabs" -> Deficit_handleTouchEnd(s)
    /\ UNCHANGED <<tdm, cts, home, details, reg>>

\* handleScroll(): setTooltipData(null), and onCountryHover(null) in part_011.
Scroll ==
    /\ map.mounted
    /\ map.variant \in Scrollable
    /\ LET s == Called(map, "handleScroll", NoGeo, 0, 0)
       IN  map' = CASE map.variant = "WorldMapEU"   -> EU_handleMouseLeave(s)
                    [] map.variant = "UsDeficitMap" -> Deficit_handleMouseLeave(s)
                    [] map.variant = "UsTariffMapTabs" -> UsTariff_handleMouseLeave(s)
    /\ UNCHANGED <<tdm, cts, home, details, reg>>

\* One of the two tab buttons of the UsTariffMaps is clicked: setActiveTab(tab).
SetActiveTab ==
    /\ Rendered(map)
    /\ map.activeTab # 0
    /\ \E tab \in {1, 2} \ {map.activeTab} :
          map' = [Called(map, "setActiveTab", NoGeo, 0, 0) EXCEPT !.activeTab = tab]
    /\ UNCHANGED <<tdm, cts, home, details, reg>>

\* The window is resized: the resize listener runs checkMobile.
Resize ==
    /\ map.mounted
    /\ \E width \in Widths \ {map.width} :
          map' = checkMobile(Called(map, "checkMobile", NoGeo, 0, 0), width)
    /\ UNCHANGED <<tdm, cts, home, details, reg>>

\* The tooltip element is part of what the component renders.
TooltipDisplayed(s) ==
    /\ Rendered(s)
    /\ s.tooltipData # None
    /\ s.variant \in {"UsDeficitMap", "UsTariffMapTabs"} => ~s.isMobile

\* The component is removed: the cleanups of its effects run, which take the
\* scroll and resize listeners off the window and clear the hook's `mounted`
\* flag.  The request in flight is not aborted.
Unmount ==
    /\ map.mounted
    /\ map' = [Called(map, "unmount", NoGeo, 0, 0) EXCEPT !.mounted = FALSE]
    /\ UNCHANGED <<tdm, cts, home, details, reg>>

MapNext ==
    \/ MapFetchResolves
    \/ MapFetchRejects
    \/ MouseEnter
    \/ MouseLeave
    \/ Click
    \/ ZoomIn
    \/ ZoomOut
    \/ TouchStart
    \/ TouchEnd
    \/ Scroll
    \/ Resize
    \/ SetActiveTab
    \/ Unmount

SpecMap == MapInit /\ [][MapNext]_vars


\* The domain of the scaleLog of UsDeficitMap: [Math.abs(minValue), 1], where
\* minValue is -1000000000 until a response is stored and Math.min(...values)
\* of its deficit_thousands afterwards; Math.min() of no values is Infinity.
Deficit_colorDomain(s) ==
    LET values == IF s.data = None THEN {-1000000000}
                  ELSE {s.data[1][i].deficit_thousands : i \in 1..Len(s.data[1])}
        minValue == CHOOSE v \in values : \A w \in values : v <= w
    IN  IF values = {} THEN <<[t |-> "inf"], JNum(1, 1)>>
        ELSE <<JNum(IF minValue < 0 THEN 0 - minValue ELSE minValue, 1), JNum(1, 1)>>

\* The domain of the scaleLog of the TradeDeficitMap of unnamed/part_010:
\* [1, Math.max(...deficitValues, 1)] in billions, over the absolute values of
\* the negative entries; no scale at all (null) while deficitData is empty.
TD_colorDomain(s) ==
    LET deficits == {0 - s.data[i].v.deficit_thousands : i \in 1..Len(s.data)}
        values == {v \in deficits : v > 1000000}
        maxDeficit == CHOOSE v \in values : \A w \in values : w <= v
    IN  IF s.data = <<>> THEN None
        ELSE IF values = {} THEN Some(<<JNum(1, 1), JNum(1, 1)>>)
        ELSE Some(<<JNum(1, 1), JNum(maxDeficit, 1000000)>>)

\* The fill the variant's render gives a feature (the variants whose fill is
\* a linear or a threshold scale of the stored record).
Fill(s, geo) ==
    CASE s.variant = "WorldMapTsx"       -> Tsx_getCountryColor(s.data, geo.name)
      [] s.variant = "WorldMapIso"       ->
            IF s.hoveredCountry = geo.ISO_A3 THEN <<71, 85, 105>>
            ELSE Iso_getCountryColor(s.data, geo)
      [] s.variant = "WorldMapEU"        -> EU_getCountryColor(s.data, geo.name)
      [] s.variant = "TradeDeficitMapId" -> ById_getCountryColor(s.data, geo)
      [] s.variant \in {"UsTariffMap", "UsTariffMapTabs"} ->
            LET scale == createColorScale(s.variant)
                homeId == IF s.variant = "UsTariffMap" THEN "USA" ELSE HomeId
                rate == IF s.activeTab = 1 THEN Get(s.data, geo.id).tariff_rate_1
                        ELSE Get(s.data, geo.id).tariff_rate_2
            IN  IF geo.id = homeId
                THEN IF s.variant = "UsTariffMap" THEN <<154, 52, 18>> ELSE MissingColor
                ELSE IF ~Has(s.data, geo.id) THEN MissingColor
                ELSE IF scale.type = "linear"
                     THEN ScaleLinear(scale.domain, scale.range, rate)
                     ELSE ScaleThreshold(scale.domain, scale.range, rate)

(***************************************************************************)
(* Claims about the map components                                         *)
(***************************************************************************)
\* C4 (zoom clamp): starting from zoom = 1, after any sequence of
\* handleZoomIn and handleZoomOut calls, 1 <= zoom <= 4 in every reachable
\* state.
C4_ZoomClamp ==
    /\ ZoomMin * map.zoom.d <= map.zoom.n
    /\ map.zoom.n <= ZoomMax * map.zoom.d

\* handleZoomIn was called at a level whose next step exceeds 4, and the
\* clamp gave exactly 4.
C4_Witness ==
    /\ map.lastCall.name = "handleZoomIn"
    /\ map.zoom = Rat(ZoomMax, 1)

\* C2 (aggregate inheritance precedence): when the tariff response holds a
\* record for 'European Union' and a record for a member Y, the record stored
\* for Y after the load, Y's fill and Y's tooltip values are Y's own.
C2_DirectRecordWins ==
    (map.variant = "WorldMapEU" /\ map.fetch = "resolved") =>
        \A i \in 1..Len(map.response) :
            LET Y == map.response[i].country_name
                direct == [us_reciprocal_tariff |-> map.response[i].us_reciprocal_tariff,
                           trump_claimed_tariff |-> map.response[i].trump_claimed_tariff]
            IN  ( /\ IsEU(Y)
                  /\ \E j \in 1..Len(map.response) :
                        map.response[j].country_name = EuropeanUnion )
                => /\ Get(map.data, Y) = direct
                   /\ EU_getCountryColor(map.data, Y)
                         = WorldMap_colorScale(direct.us_reciprocal_tariff)
                   /\ (map.tooltipData # None /\ map.tooltipData[1].countryName = Y)
                         => map.tooltipData[1].data = direct

\* A record is absent for the feature: no record under its identifier, or a
\* record whose value is null or undefined.
ById_Absent(deficitData, geo) ==
    \/ Falsy(geo.id)
    \/ ~Has(deficitData, geo.id)
    \/ Get(deficitData, geo.id).deficit_thousands \in {JNull, JUndefined}

Tsx_Absent(data, geo) ==
    \/ ~Has(data, geo.name)
    \/ Get(data, geo.name).usImportTariff \in {JNull, JUndefined}

\* C3 (missing-value determinism): every feature other than the home country
\* whose identifier has no record in the loaded data, or whose record has a
\* null/undefined value, is filled with the missing color '#F1F5F9'.
C3_MissingValueColor ==
    /\ (map.variant = "TradeDeficitMapId" /\ Rendered(map)) =>
          \A geo \in Geos \ {GeoUSA} :
              ById_Absent(map.data, geo) => Fill(map, geo) = MissingColor
    /\ (map.variant = "WorldMapTsx" /\ Rendered(map)) =>
          \A geo \in Geos \ {GeoUSA} :
              Tsx_Absent(map.data, geo) => Fill(map, geo) = MissingColor

\* C6 (end-to-end alias join): when an alias table maps a token to a
\* canonical code X and the tariff response holds a record keyed by that
\* token with value v, the feature of X is filled with the scale's color
\* for v once the data is loaded.
C6_AliasJoin ==
    (map.variant = "WorldMapIso" /\ map.fetch = "resolved") =>
        \A table \in MappingTables : \A a \in 1..Len(table) :
            \A i \in 1..Len(map.response) : \A geo \in Geos :
                ( /\ map.response[i].country_code = table[a].k
                  /\ geo.ISO_A3 = table[a].v )
                => Iso_getCountryColor(map.data, geo)
                      = WorldMap_colorScale(map.response[i].claimed_tariff)


\* C8 (click transition): a click on the home country's feature is a no-op
\* in every map variant (selection unchanged, no select callback); a click on
\* another feature that carries an identifier emits exactly one select
\* callback and, where the component keeps the selection, sets it to the
\* feature's country.
C8_ClickTransition ==
    [][ map'.lastCall.name = "handleCountryClick" =>
          LET geo == map'.lastCall.geo
          IN  IF geo = GeoUSA
              THEN /\ map'.emitted = <<>>
                   /\ map'.selectedCountry = map.selectedCountry
              ELSE (~Falsy(geo.id) /\ ~Falsy(geo.ISO_A3)) =>
                      /\ Len(map'.emitted) = 1
                      /\ map'.emitted[1].cb \in {"onCountryClick", "onCountrySelect"}
                      /\ map.variant = "WorldMapIso" => map'.selectedCountry = geo.ISO_A3
      ]_vars

\* C10 (pointer-leave transition): after pointer leave the hovered country
\* and the tooltip are null, the parent has been told the hover is cleared
\* (null) if it was told of a hover before, and zoom and selection are
\* unchanged.
C10_PointerLeave ==
    [][ map'.lastCall.name = "handleMouseLeave" =>
          /\ map'.tooltipData = None
          /\ map'.hoveredCountry = Null
          /\ map.notifiedHover # Null =>
                /\ map'.notifiedHover = Null
                /\ \E i \in 1..Len(map'.emitted) :
                      map'.emitted[i].cb = "onCountryHover" /\ map'.emitted[i].code = Null
          /\ map'.zoom = map.zoom
          /\ map'.selectedCountry = map.selectedCountry
      ]_vars


\* The loaded data holds a record under the key the variant looks the
\* feature up by.
HasRecord(s, geo) ==
    CASE s.variant = "WorldMapTsx"  -> Has(s.data, geo.name)
      [] s.variant = "WorldMapIso"  -> ~Falsy(geo.ISO_A3) /\ Has(s.data, geo.ISO_A3)
      [] s.variant = "WorldMapEU"   ->
            \/ Has(s.data, geo.name)
            \/ IsEU(geo.name) /\ Has(s.data, EuropeanUnion)
      [] s.variant = "UsDeficitMap" -> ~Falsy(geo.id) /\ Has(deficitMap(s), geo.id)
      [] s.variant \in {"UsTariffMap", "UsTariffMapTabs"} ->
            ~Falsy(geo.id) /\ Has(s.data, geo.id)
      [] s.variant = "TradeDeficitMap" ->
            /\ Has(s.countryNameToCode, geo.name)
            /\ Has(s.data, Get(s.countryNameToCode, geo.name))

\* The variants that take onCountryHover as a required prop and call it first.
NotifiesEveryHover == {"WorldMapTsx", "WorldMapEU"}

HoverNotice(geo) == [cb |-> "onCountryHover", code |-> geo.name, name |-> geo.name]

Tokens == {"Germany", "Japan", "GER", "JAP", "DE", "DEU", "JPN", "", "Nig", "an"}

COUNTRY_TO_ISO3 ==
    << [k |-> "United States of America", v |-> "USA"],
       [k |-> "United Kingdom", v |-> "GBR"],
       [k |-> "France", v |-> "FRA"],
       [k |-> "Germany", v |-> "DEU"],
       [k |-> "China", v |-> "CHN"],
       [k |-> "Japan", v |-> "JPN"],
       [k |-> "South Korea", v |-> "KOR"],
       [k |-> "Russia", v |-> "RUS"],
       [k |-> "Canada", v |-> "CAN"],
       [k |-> "Mexico", v |-> "MEX"],
       [k |-> "Brazil", v |-> "BRA"],
       [k |-> "India", v |-> "IND"],
       [k |-> "Australia", v |-> "AUS"],
       [k |-> "New Zealand", v |-> "NZL"],
       [k |-> "South Africa", v |-> "ZAF"],
       [k |-> "Saudi Arabia", v |-> "SAU"],
       [k |-> "United Arab Emirates", v |-> "ARE"],
       [k |-> "Vietnam", v |-> "VNM"],
       [k |-> "Thailand", v |-> "THA"],
       [k |-> "Indonesia", v |-> "IDN"],
       [k |-> "Malaysia", v |-> "MYS"],
       [k |-> "Philippines", v |-> "PHL"],
       [k |-> "Singapore", v |-> "SGP"] >>

\* obj[k] of a string-valued object: undefined for a missing key.
Lookup(obj, k) == IF Has(obj, k) THEN Get(obj, k) ELSE Undefined

\* A lookup whose fallback takes the last close match of the table.
getCountryCode_LastHit(countryNameToCode, countryName) ==
    LET code == Lookup(countryNameToCode, countryName)
        matches == CloseMatches(countryNameToCode, countryName)
        last == CHOOSE i \in matches : \A j \in matches : i >= j
    IN  IF ~Falsy(code) THEN code
        ELSE IF matches # {} THEN countryNameToCode[last].v
        ELSE code

\* Home.getCountryCode(countryName)
getCountryCode(countryNameToCode, countryName) ==
    LET code == Lookup(countryNameToCode, countryName)
        matches == CloseMatches(countryNameToCode, countryName)
        first == CHOOSE i \in matches : \A j \in matches : i <= j
    IN  IF ~Falsy(code) THEN code
        ELSE IF matches # {} THEN countryNameToCode[first].v
        ELSE code

\* COUNTRY_TO_ISO3[countryName] || countryMappings[countryName]
countryCode(countryMappings, countryName) ==
    IF ~Falsy(Lookup(COUNTRY_TO_ISO3, countryName))
    THEN Lookup(COUNTRY_TO_ISO3, countryName)
    ELSE Lookup(countryMappings, countryName)

\* Home.loadData has stored the tables (its Promise.all resolved).
TablesLoaded(s) == PromiseAll({s.countries, s.mappings}) = "resolved"

\* reg is the last resolution asked for: by which lookup, for which token,
\* its result, and whether the tables were loaded when it ran.
ResolveInit ==
    /\ \E countriesResp \in CountryLists : \E mappingsResp \in MappingTables :
          home = HomeInit(countriesResp, mappingsResp)
    /\ reg = [mounted |-> TRUE, by |-> "none", token |-> Null, code |-> Undefined,
              loaded |-> FALSE]
    /\ tdm = Unmounted
    /\ cts = Unmounted
    /\ details = Unmounted
    /\ map = Unmounted

GetCountryCode ==
    /\ \E token \in Tokens :
          reg' = [reg EXCEPT !.by = "getCountryCode", !.token = token,
                             !.code = getCountryCode(home.countryNameToCode, token),
                             !.loaded = TablesLoaded(home)]
    /\ UNCHANGED <<tdm, cts, home, details, map>>

RenderLookup ==
    /\ \E token \in Tokens :
          reg' = [reg EXCEPT !.by = "renderGeographies", !.token = token,
                             !.code = countryCode(home.countryMappings, token),
                             !.loaded = TablesLoaded(home)]
    /\ UNCHANGED <<tdm, cts, home, details, map>>

ResolveNext ==
    \/ HomeCountriesSettles
    \/ HomeMappingsSettles
    \/ GetCountryCode
    \/ RenderLookup

SpecResolve == ResolveInit /\ [][ResolveNext]_vars

\* C5 (alias closure): once the country list and the alias table are loaded,
\* resolving a token a of the alias table yields the code X it maps to, and
\* resolving a canonical ISO alpha-3 code X of the country list yields X.
C5_AliasClosure ==
    (reg.by # "none" /\ reg.loaded) =>
        /\ Has(home.countryMappings, reg.token)
              => reg.code = Get(home.countryMappings, reg.token)
        /\ Has(home.countryCodeToName, reg.token) => reg.code = reg.token


\* C11 (narrow-viewport suppression): in every reachable state in which the
\* narrow-viewport flag isMobile is true no tooltip is displayed, whatever
\* pointer, touch, scroll and resize events led to that state.
C11_NarrowViewportNoTooltip ==
    (map.variant \in Scrollable /\ map.isMobile) => ~TooltipDisplayed(map)


\* A feature name that is no key of the table and in no substring relation
\* (either way, ignoring case) with any key.
Unmatched(table, name) ==
    ~Has(table, name) /\ CloseMatches(table, name) = {}

FirstClose(table, name) ==
    table[CHOOSE i \in CloseMatches(table, name) :
              \A j \in CloseMatches(table, name) : i <= j]

\* C13 (resolve lookup order): an exact key of the table wins over the
\* case-insensitive substring fallback, the fallback is used only when the
\* token is no exact key, and the result is undefined / nothing when neither
\* matches.  Stated for every click on a feature other than the home country:
\* for Home.getCountryCode of the clicked name over the name table handed to
\* the TradeDeficitMap, and for what the click of the WorldMap of
\* unnamed/part_011:318-774 reports to its parent.
C13_ExactBeforeSubstring ==
    [][(/\ map'.lastCall.name = "handleCountryClick"
        /\ map'.lastCall.geo.name # HomeName)
       => LET name == map'.lastCall.geo.name
              table == map.countryNameToCode
              code == getCountryCode(table, name)
              to(key) == <<[cb |-> "onCountryClick", code |-> key, name |-> key]>>
          IN  /\ map.variant = "TradeDeficitMap" =>
                    /\ Has(table, name) => code = Get(table, name)
                    /\ (~Has(table, name) /\ CloseMatches(table, name) # {})
                          => code = FirstClose(table, name).v
                    /\ Unmatched(table, name) => code = Undefined
              /\ map.variant = "WorldMapEU" =>
                    /\ Has(map.data, name) => map'.emitted = to(name)
                    /\ (~Has(map.data, name) /\ CloseMatches(map.data, name) # {})
                          => map'.emitted = to(FirstClose(map.data, name).k)
                    /\ Unmatched(map.data, name) => map'.emitted = <<>>]_vars

\* Niger was clicked while the table lists Nigeria before Niger: the exact
\* key was reported although an earlier entry contains the name.
C13_Witness ==
    /\ map.variant = "WorldMapEU"
    /\ map.lastCall.name = "handleCountryClick"
    /\ map.lastCall.geo = GeoNER
    /\ Has(map.data, "Niger")
    /\ FirstClose(map.data, "Niger").k = "Nigeria"
    /\ map.emitted = <<[cb |-> "onCountryClick", code |-> "Niger", name |-> "Niger"]>>


\* A bound of a logarithmic domain that is a finite number above zero.
PositiveFinite(x) == x.t = "num" /\ x.n > 0 /\ x.d > 0

\* C14 (logarithmic scale input validity): for every data set, also an empty
\* one and one without a negative deficit, both bounds of the domain of the
\* logarithmic deficit scale are strictly positive and finite.
C14_LogDomainValid ==
    /\ map.variant = "UsDeficitMap" =>
          \A i \in 1..2 : PositiveFinite(Deficit_colorDomain(map)[i])
    /\ (map.variant = "TradeDeficitMap" /\ TD_colorDomain(map) # None) =>
          \A i \in 1..2 : PositiveFinite(TD_colorDomain(map)[1][i])


\* C15 (scale configuration): every linear color scale built by
\* createColorScale has as many color stops as domain stops, and every
\* threshold scale has one color stop more than breakpoints, in every variant.
C15_ScaleConfiguration ==
    map.variant \in {"WorldMapTsx", "WorldMapIso", "WorldMapEU",
                     "UsTariffMap", "UsTariffMapTabs"} =>
        LET scale == createColorScale(map.variant)
        IN  /\ scale.type = "linear" => Len(scale.range) = Len(scale.domain)
            /\ scale.type = "threshold" => Len(scale.range) = Len(scale.domain) + 1


\* The number the variant's render takes from the feature's record and turns
\* into a fill with its linear scale (JNull where there is no record).
LinearInput(s, geo) ==
    CASE s.variant = "WorldMapTsx" ->
            IF Has(s.data, geo.name) THEN Get(s.data, geo.name).usImportTariff ELSE JNull
      [] s.variant = "WorldMapEU" ->
            IF Has(s.data, geo.name) THEN Get(s.data, geo.name).us_reciprocal_tariff ELSE JNull
      [] s.variant = "UsTariffMap" ->
            IF ~Has(s.data, geo.id) THEN JNull
            ELSE IF s.activeTab = 1 THEN Get(s.data, geo.id).tariff_rate_1
            ELSE Get(s.data, geo.id).tariff_rate_2

\* C16 (linear scale clamping): in every variant with a linear scale, a
\* feature (other than the home country) whose value lies below the first
\* domain stop is filled with the color of the first stop, and one whose value
\* lies above the last domain stop with the color of the last stop.
C16_LinearClamp ==
    (map.variant \in {"WorldMapTsx", "WorldMapEU", "UsTariffMap"} /\ Rendered(map)) =>
        \A geo \in Geos \ {GeoUSA} :
            LET scale == createColorScale(map.variant)
                v == LinearInput(map, geo)
                first == scale.domain[1]
                last == scale.domain[Len(scale.domain)]
            IN  v.t = "num" =>
                  /\ v.n < first * v.d => Fill(map, geo) = scale.range[1]
                  /\ v.n > last * v.d => Fill(map, geo) = scale.range[Len(scale.range)]


\* C17 (threshold scale): with the breakpoints 10, 15, 20, 30, 50, 100, 150
\* and the 8 colors of unnamed/part_008, a feature (other than the home
\* country) whose rate of the active tab is v is filled with color i, where
\* breakpoint[i-1] <= v < breakpoint[i]: the first color below 10, the bucket
\* above for a value equal to a breakpoint, the last color from 150 on.
C17_ThresholdBuckets ==
    (map.variant = "UsTariffMapTabs" /\ Rendered(map)) =>
        \A geo \in Geos \ {GeoUSA} :
            Has(map.data, geo.id) =>
                LET breakpoint == <<10, 15, 20, 30, 50, 100, 150>>
                    color == << <<224, 224, 224>>, <<255, 228, 204>>, <<255, 212, 163>>,
                                <<251, 146, 60>>, <<249, 115, 22>>, <<234, 88, 12>>,
                                <<194, 65, 12>>, <<154, 52, 18>> >>
                    record == Get(map.data, geo.id)
                    v == IF map.activeTab = 1 THEN record.tariff_rate_1
                         ELSE record.tariff_rate_2
                IN  \A i \in 1..8 :
                        (/\ i > 1 => breakpoint[i - 1] * v.d <= v.n
                         /\ i < 8 => v.n < breakpoint[i] * v.d)
                        => Fill(map, geo) = color[i]

\* The first tab is active and Germany's rate is 20, a breakpoint: Germany has
\* the color of the bucket 20-30, Japan (24) the same one.
C17_Witness ==
    /\ map.variant = "UsTariffMapTabs"
    /\ Rendered(map)
    /\ map.lastCall.name = "setActiveTab"
    /\ map.activeTab = 1
    /\ Has(map.data, "276")
    /\ Get(map.data, "276").tariff_rate_1 = JNum(20, 1)
    /\ Fill(map, GeoDEU) = <<251, 146, 60>>


\* C18 (scale monotonicity): the domain stops of the linear scale of
\* src/components/WorldMap.tsx and of the logarithmic scale of UsDeficitMap
\* are ascending, and of two inputs v1 < v2 inside the domain the position of
\* v1 along the color ramp is not after that of v2.  The position along a
\* two-stop logarithmic scale is (log v - log d1) / (log d2 - log d1), which
\* grows with v exactly when d1 < d2; along a linear scale it is the segment
\* plus the fraction covered inside it.
C18_ScaleMonotone ==
    /\ map.variant = "WorldMapTsx" =>
          LET domain == createColorScale("WorldMapTsx").domain
              n == Len(domain)
              pos(v) == LET k == Segment(domain, n, JNum(v, 1))
                        IN  Rat((k - 1) * (domain[k + 1] - domain[k]) + (v - domain[k]),
                                domain[k + 1] - domain[k])
          IN  /\ \A k \in 1..(n - 1) : domain[k] < domain[k + 1]
              /\ \A v1, v2 \in {5 * i : i \in 0..10} :
                    v1 < v2 => pos(v1).n * pos(v2).d <= pos(v2).n * pos(v1).d
    /\ (map.variant = "UsDeficitMap" /\ Rendered(map)) =>
          LET domain == Deficit_colorDomain(map)
              d1 == domain[1].n
              d2 == domain[2].n
          IN  domain[1].t = "num" =>
                 /\ d1 < d2
                 /\ \A v1, v2 \in {d1, d2} : v1 < v2 => d1 < d2


\* C19 (pending-fetch tolerance): while the fetch of UsDeficitMap is pending
\* the map is rendered, every feature in the missing color, and its zoom,
\* hover and click handlers can be invoked.
C19_PendingFetchTolerated ==
    (map.variant = "UsDeficitMap" /\ map.fetch = "pending") =>
        /\ Rendered(map)
        /\ ENABLED ZoomIn
        /\ ENABLED MouseEnter
        /\ ENABLED Click


\* C20 (hover and selection are orthogonal): in the WorldMap of
\* unnamed/part_011:1-316 and the TradeDeficitMap of unnamed/part_010, pointer
\* enter and pointer leave never change the selected country, and a click
\* never changes the hovered country or the tooltip.
C20_HoverSelectionOrthogonal ==
    [][map.variant \in {"WorldMapIso", "TradeDeficitMap"} =>
         /\ map'.lastCall.name \in {"handleMouseEnter", "handleMouseLeave"}
               => map'.selectedCountry = map.selectedCountry
         /\ map'.lastCall.name = "handleCountryClick"
               => /\ map'.hoveredCountry = map.hoveredCountry
                  /\ map'.tooltipData = map.tooltipData]_vars

\* Germany is selected while the pointer has entered Japan: selected = A and
\* hovered = B with A # B.
C20_Witness ==
    /\ map.variant = "WorldMapIso"
    /\ map.lastCall.name = "handleMouseEnter"
    /\ map.selectedCountry = "DEU"
    /\ map.hoveredCountry = "JPN"
    /\ map.tooltipData # None


(***************************************************************************)
(* SpecSelect: Home of frontend/src/app/page.tsx, which keeps the selected *)
(* country and renders CountryDetails for it                               *)
(***************************************************************************)
\* useState initial values, then the mount effect has run loadData() up to
\* the await of fetchCountries().
PageInit(countriesResp) ==
    [ mounted |-> TRUE,
      countriesResp |-> countriesResp,
      countries |-> "pending",
      countryNameToCode |-> <<>>,
      countryCodeToName |-> <<>>,
      isLoadingCountries |-> TRUE,
      selectedCountry |-> None,
      selectedBy |-> "none" ]

\* The code after the await (the two tables from the country list: name ->
\* ISO3 code and ISO3 code -> name) or the catch block, then finally.
PageSettle(s, outcome) ==
    IF outcome = "resolved"
    THEN [s EXCEPT !.countries = outcome,
                   !.countryNameToCode = NameToCode(s.countriesResp, <<>>),
                   !.countryCodeToName = CodeToName(s.countriesResp, <<>>),
                   !.isLoadingCountries = FALSE]
    ELSE [s EXCEPT !.countries = outcome, !.isLoadingCountries = FALSE]

\* countryId={parseInt(selectedCountry.code)}: the number CountryDetails
\* gets; 0 stands for NaN, which its guard (!id || isNaN(id)) rejects like 0.
CountryIdProp(code) ==
    IF Falsy(code) \/ parseInt(code) = JNaN THEN 0 ELSE parseInt(code).n

\* The details section after setSelectedCountry(country): CountryDetails is
\* mounted if it was not, and its effect re-runs when countryId changed.
RenderDetails(d, country) ==
    LET id == CountryIdProp(country.code)
    IN  IF ~d.mounted THEN DetailsInit(id)
        ELSE IF d.countryId = id THEN d
        ELSE DetailsFetchData(d, id)

\* The codes the CountryDropdown offers: the ISO3 codes of the country list.
DropdownCodes == {"DEU", "JPN", "NGA", "NER"}

\* CountryDropdown.onCountrySelect(countryCode), page.tsx:218-223.
DropdownSelect ==
    \E iso3 \in DropdownCodes :
        LET countryName == Lookup(home.countryCodeToName, iso3)
            country == [name |-> countryName,
                        code |-> Lookup(home.countryNameToCode, countryName)]
        IN  /\ ~Falsy(countryName)
            /\ details.mounted => details.issued < MaxDetailRequests
            /\ home' = [home EXCEPT !.selectedCountry = Some(country),
                                !.selectedBy = "dropdown"]
            /\ details' = RenderDetails(details, country)
            /\ UNCHANGED <<tdm, cts, map, reg>>

\* UsDeficitMap.handleCountryClick(geo) with onCountrySelect = setSelectedCountry.
MapSelect ==
    \E geo \in Geos :
        LET country == [name |-> geo.name, code |-> geo.id]
        IN  /\ ~(Falsy(geo.id) \/ Falsy(geo.name) \/ geo.id = HomeId)
            /\ details.mounted => details.issued < MaxDetailRequests
            /\ home' = [home EXCEPT !.selectedCountry = Some(country), !.selectedBy = "map"]
            /\ details' = RenderDetails(details, country)
            /\ UNCHANGED <<tdm, cts, map, reg>>

\* The close button: setSelectedCountry(null); GlobalStats replaces CountryDetails.
ClearSelection ==
    /\ home.selectedCountry # None
    /\ home' = [home EXCEPT !.selectedCountry = None, !.selectedBy = "none"]
    /\ details' = Unmounted
    /\ UNCHANGED <<tdm, cts, map, reg>>

PageCountriesSettles ==
    \E outcome \in {"resolved", "rejected"} :
        /\ home.countries = "pending"
        /\ home' = PageSettle(home, outcome)
        /\ UNCHANGED <<tdm, cts, details, map, reg>>

SelectInit ==
    /\ \E countriesResp \in CountryLists : home = PageInit(countriesResp)
    /\ details = Unmounted
    /\ tdm = Unmounted
    /\ cts = Unmounted
    /\ map = Unmounted
    /\ reg = Unmounted

SelectNext ==
    \/ PageCountriesSettles
    \/ DropdownSelect
    \/ MapSelect
    \/ ClearSelection
    \/ DetailsSummarySettles
    \/ DetailsInfoSettles

SpecSelect == SelectInit /\ [][SelectNext]_vars

\* C21 (zoom step): handleZoomIn sets zoom to min(zoom * 1.5, 4) and
\* handleZoomOut to max(zoom / 1.5, 1); neither changes the tooltip, the
\* hovered or the selected country; the levels that repeated zoom-in reaches
\* from 1 are 1.5, 2.25, 3.375 and then 4.
C21_ZoomStep ==
    [][LET z == map.zoom
           w == map'.zoom
           untouched == /\ map'.tooltipData = map.tooltipData
                        /\ map'.hoveredCountry = map.hoveredCountry
                        /\ map'.selectedCountry = map.selectedCountry
       IN  /\ map'.lastCall.name = "handleZoomIn" =>
                /\ untouched
                /\ IF 3 * z.n <= 4 * 2 * z.d
                   THEN w.n * 2 * z.d = 3 * z.n * w.d
                   ELSE w = [n |-> 4, d |-> 1]
                /\ z = [n |-> 1, d |-> 1] => w = [n |-> 3, d |-> 2]
                /\ z = [n |-> 3, d |-> 2] => w = [n |-> 9, d |-> 4]
                /\ z = [n |-> 9, d |-> 4] => w = [n |-> 27, d |-> 8]
                /\ z = [n |-> 27, d |-> 8] => w = [n |-> 4, d |-> 1]
           /\ map'.lastCall.name = "handleZoomOut" =>
                /\ untouched
                /\ IF 2 * z.n >= 3 * z.d
                   THEN w.n * 3 * z.d = 2 * z.n * w.d
                   ELSE w = [n |-> 1, d |-> 1]]_vars

\* A zoom-in reached 3.375 while a tooltip was shown and a country selected:
\* both were kept.
C21_Witness ==
    /\ map.lastCall.name = "handleZoomIn"
    /\ map.zoom = [n |-> 27, d |-> 8]
    /\ map.tooltipData # None
    /\ map.selectedCountry # Null

\* C27 (zoom round trip): from every reachable zoom level z, zoom-in then
\* zoom-out returns exactly z when z * 1.5 <= 4 and does not when the step in
\* was clamped; zoom-out then zoom-in returns exactly z when z / 1.5 >= 1 and
\* does not when the step out was clamped; and the levels reachable from 1 are
\* the eight values 1, 3/2, 9/4, 27/8, 4, 8/3, 16/9, 32/27.
C27_ZoomRoundTrip ==
    LET z == map.zoom
    IN  /\ (handleZoomOut(handleZoomIn(z)) = z) <=> (3 * z.n <= 4 * 2 * z.d)
        /\ (handleZoomIn(handleZoomOut(z)) = z) <=> (2 * z.n >= 3 * z.d)
        /\ z \in { [n |-> 1, d |-> 1], [n |-> 3, d |-> 2], [n |-> 9, d |-> 4],
                   [n |-> 27, d |-> 8], [n |-> 4, d |-> 1], [n |-> 8, d |-> 3],
                   [n |-> 16, d |-> 9], [n |-> 32, d |-> 27] }

\* Zoom-in from 3.375 was clamped to 4 and the next zoom-out gave 4 / 1.5.
C27_Witness ==
    /\ map.lastCall.name = "handleZoomOut"
    /\ map.zoom = [n |-> 8, d |-> 3]


\* The component state without the record of the call and without the
\* tooltip's coordinates.
SameButCoordinates(s) ==
    [s EXCEPT !.lastCall = NoGeo,
              !.tooltipData = IF @ = None THEN None
                              ELSE Some([@[1] EXCEPT !.x = 0, !.y = 0])]

\* C22 (touch mirrors pointer): a touch start on a feature leaves the
\* component in the state that a pointer enter on that feature would have
\* left (tooltip content, hovered country, selection, zoom, notifications of
\* the parent), and a touch end in the state a pointer leave would have
\* left; only the tooltip's coordinates may differ.
C22_TouchMirrorsPointer ==
    [][/\ map'.lastCall.name = "handleTouchStart" =>
            SameButCoordinates(map') =
                SameButCoordinates(handleMouseEnter(map, map'.lastCall.geo, 0, 0))
       /\ map'.lastCall.name = "handleTouchEnd" =>
            SameButCoordinates(map') = SameButCoordinates(handleMouseLeave(map))]_vars

\* A touch start on an EU member without a record of its own showed the
\* aggregate's tooltip and notified the parent.
C22_Witness ==
    /\ map.lastCall.name = "handleTouchStart"
    /\ map.variant = "WorldMapEU"
    /\ map.tooltipData # None
    /\ ~Has(map.data, map.lastCall.geo.name)
    /\ Len(map.emitted) = 1


\* The response has a record of its own for the country.
DirectRecord(response, countryName) ==
    \E i \in 1..Len(response) : response[i].country_name = countryName

\* The 'European Union' record of the response.
Aggregate(response) ==
    response[CHOOSE i \in 1..Len(response) : response[i].country_name = EuropeanUnion]

\* C23 (aggregate propagation): when the loaded response has a 'European
\* Union' record, every EU member without a record of its own is stored with
\* the aggregate's two rates and is filled with the color of the aggregate's
\* rate, and a pointer enter on it shows the aggregate's two rates; when the
\* response has no 'European Union' record, such a member has no data, the
\* missing-data fill and no tooltip.
C23_AggregatePropagation ==
    [][(map'.variant = "WorldMapEU" /\ Rendered(map')) =>
         LET response == map'.response
             withEU == DirectRecord(response, EuropeanUnion)
             eu == Aggregate(response)
         IN  /\ (map.loading) =>
                  \A i \in 1..Len(EU_COUNTRIES) :
                     LET member == EU_COUNTRIES[i]
                     IN  ~DirectRecord(response, member) =>
                           IF withEU
                           THEN /\ Has(map'.data, member)
                                /\ Get(map'.data, member).us_reciprocal_tariff
                                      = eu.us_reciprocal_tariff
                                /\ Get(map'.data, member).trump_claimed_tariff
                                      = eu.trump_claimed_tariff
                                /\ EU_getCountryColor(map'.data, member)
                                      = WorldMap_colorScale(eu.us_reciprocal_tariff)
                           ELSE /\ ~Has(map'.data, member)
                                /\ EU_getCountryColor(map'.data, member) = MissingColor
             /\ (/\ map'.lastCall.name = "handleMouseEnter"
                 /\ IsEU(map'.lastCall.geo.name)
                 /\ ~DirectRecord(response, map'.lastCall.geo.name)) =>
                  IF withEU
                  THEN /\ map'.tooltipData # None
                       /\ map'.tooltipData[1].data =
                             [trump_claimed_tariff |-> eu.trump_claimed_tariff,
                              us_reciprocal_tariff |-> eu.us_reciprocal_tariff]
                  ELSE map'.tooltipData = map.tooltipData]_vars

\* The pointer entered Germany after a response with the aggregate and no
\* record for Germany: the tooltip shows the aggregate's rates.
C23_Witness ==
    /\ map.variant = "WorldMapEU"
    /\ map.lastCall.name = "handleMouseEnter"
    /\ map.lastCall.geo.name = "Germany"
    /\ DirectRecord(map.response, EuropeanUnion)
    /\ ~DirectRecord(map.response, "Germany")
    /\ map.tooltipData # None
    /\ map.tooltipData[1].data.us_reciprocal_tariff = JNum(20, 1)


C25_WholesaleSupersede ==
    [][Len(tdm'.arrived) = Len(tdm.arrived) + 1 =>
         LET a == tdm'.arrived[Len(tdm'.arrived)]
             deficits == ServerDeficits(a.param)
             stored == tdm'.deficitData
         IN  IF a.ok
             THEN /\ \A i \in 1..Len(deficits) :
                        /\ Has(stored, deficits[i].country_code)
                        /\ Get(stored, deficits[i].country_code) = deficits[i]
                        /\ deficits[i].country_name # "" =>
                              /\ Has(stored, deficits[i].country_name)
                              /\ Get(stored, deficits[i].country_name) = deficits[i]
                  /\ \A j \in 1..Len(stored) :
                        \E i \in 1..Len(deficits) :
                           /\ stored[j].k \in {deficits[i].country_code,
                                               deficits[i].country_name}
                           /\ stored[j].k # ""
                  /\ \A j, k \in 1..Len(stored) : stored[j].k = stored[k].k => j = k
             ELSE /\ stored = tdm.deficitData
                  /\ tdm'.error = "Failed to load trade deficit data"]_vars

\* A response with Germany and Japan was stored, then one with Germany only:
\* Japan's keys are gone; or a failure after a success kept the stored map.
C25_Witness ==
    /\ Len(tdm.arrived) >= 2
    /\ tdm.arrived[1].ok /\ tdm.arrived[1].param % 2 = 1
    /\ tdm.arrived[2].ok /\ tdm.arrived[2].param % 2 = 0
    /\ Len(tdm.arrived) = 3 => ~tdm.arrived[3].ok
    /\ Len(tdm.arrived) <= 3
    /\ ~Has(tdm.deficitData, "JPN")
    /\ Has(tdm.deficitData, "Germany")


\* C26 (loading covers every request in flight): while a request issued for
\* the current parameter has not settled, loading is true; once every issued
\* request has settled, loading is false.
C26_LoadingCoversInFlight ==
    /\ (\E r \in tdm.pending : r.year = tdm.year) => tdm.loading
    /\ (\E r \in cts.pending : r.timeRange = cts.timeRange) => cts.loading
    /\ tdm.pending = {} => ~tdm.loading
    /\ cts.pending = {} => ~cts.loading


\* C28 (consistent numeric-id join): for every record of the loaded response,
\* the feature whose id is the record's country_id padded to three digits
\* finds the record in the deficit map and in the tariff map alike; a record
\* with country_id 4 is found for the feature '004' by both.
C28_ConsistentIdJoin ==
    (Rendered(map) /\ map.variant \in {"UsDeficitMap", "UsTariffMapTabs"}) =>
        \A i \in 1..Len(map.response) :
            LET g == PadStart3(map.response[i].country_id)
            IN  /\ IF map.variant = "UsDeficitMap"
                   THEN Has(deficitMap(map), g)
                   ELSE Has(map.data, g)
                /\ (g = GeoAFG.id /\ map.variant = "UsTariffMapTabs")
                      => Fill(map, GeoAFG) # MissingColor


\* C29 (one identifier scheme): whenever a country is selected, by a click on
\* the map or through the dropdown, its code parses to a number and the
\* detail view does not show 'No valid country ID provided'.
C29_SelectionParses ==
    home.selectedCountry # None =>
        /\ parseInt(home.selectedCountry[1].code) # JNaN
        /\ details.error # "No valid country ID provided"


\* C30 (substring fallback is first-hit): a getCountryCode query that is not a
\* key of the table returns the code of the first entry, in the table's
\* insertion order, whose lower-cased name contains or is contained in the
\* lower-cased query, and undefined only when there is no such entry; the
\* empty query on a non-empty table returns the first entry's code.
C30_FirstHitFallback ==
    LET table == IF reg.loaded THEN home.countryNameToCode ELSE <<>>
        query == toLowerCase(reg.token)
        hit(i) == \/ includes(toLowerCase(table[i].k), query)
                  \/ includes(query, toLowerCase(table[i].k))
    IN  (reg.by = "getCountryCode" /\ ~Has(table, reg.token)) =>
           /\ \A i \in 1..Len(table) :
                 (hit(i) /\ \A j \in 1..(i - 1) : ~hit(j)) => reg.code = table[i].v
           /\ (reg.code = Undefined) <=> (\A i \in 1..Len(table) : ~hit(i))
           /\ (reg.token = "" /\ table # <<>>) => reg.code = table[1].v

\* The empty query, or one that two names contain, was answered from a table
\* of two entries with the first entry's code.
C30_Witness ==
    /\ reg.by = "getCountryCode"
    /\ reg.loaded
    /\ reg.token \in {"", "Nig"}
    /\ Len(home.countryNameToCode) = 2
    /\ reg.code = home.countryNameToCode[1].v

====
